---- MODULE Spec2Model ----
(***************************************************************************)
(* Model of the GreenEnergy grid simulation (backend/app/simulation).      *)
(*                                                                         *)
(* The source computes with Python floats; the model computes with         *)
(* integers in fixed units, rounding to nearest where the source divides:  *)
(*   power        0.1 MW            (100 MW = 1000)                        *)
(*   energy       1/20000 MWh       (400 MWh = 8000000)                    *)
(*   duration     quarter hours     (0.25 h = 1)                           *)
(*   clock        minutes           (24.0 h = 1440)                        *)
(*   wind speed   0.01 m/s          (8.0 m/s = 800)                        *)
(*   cloud cover  0.01              (1.0 = 100)                            *)
(*   temperature  0.1 C             (12.0 C = 120)                         *)
(*   efficiency   percent           (0.95 = 95)                            *)
(*   battery cycles 1/8000000 cycle (one energy unit moved = 1)            *)
(*   fuel cost    cent              gas CO2  0.0001 t    CO2 total 0.01 kg *)
(*   percentages  0.01 percent      (100 % = 10000)                        *)
(* The energy unit is finer than the power unit so that, as with floats,   *)
(* power -> energy -> power returns the power it started from whenever no  *)
(* limit applies.                                                          *)
(***************************************************************************)
EXTENDS Integers, Sequences, FiniteSets, TLC

VARIABLES
    time,                \* TimeManager: current_hour, current_day, total_ticks
    weather,             \* WeatherSystem: wind_speed, cloud_cover, temperature
    industrial_enabled,  \* DemandModel.industrial_enabled
    battery,             \* Battery: current_charge_mwh, total_cycles
    gas,                 \* GasPlant: output and cumulative counters
    gas_active,          \* GridController.gas_active
    cumulative_metrics,  \* SimulationEngine.cumulative_metrics
    last,                \* the last operation and what it returned
    calls,               \* number of direct component calls made so far
    snapshots,           \* GridStates a caller of tick() has kept hold of
    routes_sim_engine,   \* routes.sim_engine: empty (None) or one engine
    active_connections,  \* websocket.manager.active_connections
    pc,                  \* where each websocket_endpoint coroutine stands
    received,            \* the messages each WebSocket client has received
    running_task,        \* the task the event loop is executing, or "none"
    period_ticks,        \* loop ticks since the current 2 s period began
    closed_sockets       \* the WebSockets whose client has gone: a send raises

\* the API layer (api/routes.py, api/websocket.py)
server_vars == <<routes_sim_engine, active_connections, pc, received,
                 running_task, period_ticks, closed_sockets>>

vars == <<time, weather, industrial_enabled, battery, gas, gas_active,
          cumulative_metrics, last, calls, snapshots, server_vars>>

-----------------------------------------------------------------------------
(* Bounds of the model *)

\* ticks since the last reset after which the model stops ticking
MaxTicks == 2

\* component-level calls (balance_grid, set_output, shutdown) per behaviour
MaxCalls == 10

\* snapshots a caller keeps hold of
MaxHeld == 1

\* ticks of the engine the WebSocket endpoint streams
MaxServerTicks == 4

\* the WebSocket clients that may connect
Clients == {"c1", "c2"}

-----------------------------------------------------------------------------
(* Arithmetic helpers *)

Min(a, b) == IF a <= b THEN a ELSE b

Max(a, b) == IF a >= b THEN a ELSE b

Abs(a) == IF a >= 0 THEN a ELSE 0 - a

\* a / b rounded to the nearest integer, for a >= 0 and b > 0
Round(a, b) == (2 * a + b) \div (2 * b)

-----------------------------------------------------------------------------
(* Battery (energy_sources/battery.py) *)

max_capacity_mwh == 8000000

max_charge_rate_mw == 1000

max_discharge_rate_mw == 1000

round_trip_efficiency == 95

initial_charge_mwh == 4000000

\* energy units moved by one power unit in one quarter hour (0.1 MW * 0.25 h)
EnergyPerPowerQuarter == 500

Battery_init ==
    [current_charge_mwh |-> Min(initial_charge_mwh, max_capacity_mwh),
     total_cycles |-> 0]

\* Battery.charge without its "Don't overcharge" limit
Battery_charge_overcharging(b, power_mw, duration) ==
    LET actual_power == Min(power_mw, max_charge_rate_mw)
        energy_stored == (actual_power * duration * EnergyPerPowerQuarter
                             * round_trip_efficiency) \div 100
    IN [battery |-> [current_charge_mwh |-> b.current_charge_mwh + energy_stored,
                     total_cycles |-> b.total_cycles + energy_stored],
        ret |-> IF duration > 0 THEN actual_power ELSE 0,
        energy |-> energy_stored,
        limited |-> FALSE]

\* Battery.charge returning the power it was asked for (rate-limited) rather
\* than the power it drew
Battery_charge_reporting_request(b, power_mw, duration) ==
    LET actual_power == Min(power_mw, max_charge_rate_mw)
        energy_wanted == (actual_power * duration * EnergyPerPowerQuarter
                             * round_trip_efficiency) \div 100
        space_available == max_capacity_mwh - b.current_charge_mwh
        energy_stored == Min(energy_wanted, space_available)
    IN [battery |-> [current_charge_mwh |-> b.current_charge_mwh + energy_stored,
                     total_cycles |-> b.total_cycles + energy_stored],
        ret |-> IF duration > 0 THEN actual_power ELSE 0,
        energy |-> energy_stored,
        limited |-> energy_stored < energy_wanted]

\* charge() without the clamp to max_charge_rate_mw
Battery_charge_ignoring_rate(b, power_mw, duration) ==
    LET actual_power == power_mw
        energy_wanted == (actual_power * duration * EnergyPerPowerQuarter
                             * round_trip_efficiency) \div 100
        space_available == max_capacity_mwh - b.current_charge_mwh
        energy_stored == Min(energy_wanted, space_available)
    IN [battery |-> [current_charge_mwh |-> b.current_charge_mwh + energy_stored,
                     total_cycles |-> b.total_cycles + energy_stored],
        ret |-> IF duration > 0
                   THEN Round(energy_stored * 100,
                              duration * EnergyPerPowerQuarter * round_trip_efficiency)
                   ELSE 0,
        energy |-> energy_stored,
        limited |-> energy_stored < energy_wanted]

\* Battery.charge(power_mw, duration_hours): the battery after the call and
\* the value returned (grid-side power drawn)
Battery_charge(b, power_mw, duration) ==
    LET actual_power == Min(power_mw, max_charge_rate_mw)
        energy_wanted == (actual_power * duration * EnergyPerPowerQuarter
                             * round_trip_efficiency) \div 100
        space_available == max_capacity_mwh - b.current_charge_mwh
        energy_stored == Min(energy_wanted, space_available)
    IN [battery |-> [current_charge_mwh |-> b.current_charge_mwh + energy_stored,
                     total_cycles |-> b.total_cycles + energy_stored],
        ret |-> IF duration > 0
                   THEN Round(energy_stored * 100,
                              duration * EnergyPerPowerQuarter * round_trip_efficiency)
                   ELSE 0,
        energy |-> energy_stored,
        limited |-> energy_stored < energy_wanted]

\* discharge() drawing from storage only what it delivers, without the loss
Battery_discharge_without_loss(b, power_mw, duration) ==
    LET actual_power == Min(power_mw, max_discharge_rate_mw)
        energy_needed == actual_power * duration * EnergyPerPowerQuarter
        energy_available == b.current_charge_mwh
        energy_used == Min(energy_needed, energy_available)
    IN [battery |-> [current_charge_mwh |-> b.current_charge_mwh - energy_used,
                     total_cycles |-> b.total_cycles + energy_used],
        ret |-> IF duration > 0
                   THEN Round(energy_used * round_trip_efficiency,
                              duration * EnergyPerPowerQuarter * 100)
                   ELSE 0,
        energy |-> energy_used,
        limited |-> energy_used < energy_needed]

\* discharge() counting as cycles the energy delivered to the grid instead
\* of the energy taken from storage
Battery_discharge_counting_delivered(b, power_mw, duration) ==
    LET actual_power == Min(power_mw, max_discharge_rate_mw)
        energy_needed == Round(actual_power * duration * EnergyPerPowerQuarter * 100,
                               round_trip_efficiency)
        energy_available == b.current_charge_mwh
        energy_used == Min(energy_needed, energy_available)
    IN [battery |-> [current_charge_mwh |-> b.current_charge_mwh - energy_used,
                     total_cycles |-> b.total_cycles
                                        + (energy_used * round_trip_efficiency) \div 100],
        ret |-> IF duration > 0
                   THEN Round(energy_used * round_trip_efficiency,
                              duration * EnergyPerPowerQuarter * 100)
                   ELSE 0,
        energy |-> energy_used,
        limited |-> energy_used < energy_needed]

\* Battery.discharge(power_mw, duration_hours): the battery after the call and
\* the value returned (grid-side power delivered)
Battery_discharge(b, power_mw, duration) ==
    LET actual_power == Min(power_mw, max_discharge_rate_mw)
        energy_needed == Round(actual_power * duration * EnergyPerPowerQuarter * 100,
                               round_trip_efficiency)
        energy_available == b.current_charge_mwh
        energy_used == Min(energy_needed, energy_available)
    IN [battery |-> [current_charge_mwh |-> b.current_charge_mwh - energy_used,
                     total_cycles |-> b.total_cycles + energy_used],
        ret |-> IF duration > 0
                   THEN Round(energy_used * round_trip_efficiency,
                              duration * EnergyPerPowerQuarter * 100)
                   ELSE 0,
        energy |-> energy_used,
        limited |-> energy_used < energy_needed]

-----------------------------------------------------------------------------
(* Gas plant (energy_sources/gas_plant.py) *)

capacity_mw == 3000

fuel_cost_per_mwh == 150

\* 0.5 t/MWh, in tenths
co2_per_mwh_tons == 5

\* 10 MW per minute
ramp_rate_mw_per_min == 100

GasPlant_init ==
    [current_output_mw |-> 0,
     total_runtime_hours |-> 0,
     total_fuel_cost_eur |-> 0,
     total_co2_tons |-> 0,
     activation_count |-> 0]

\* largest change of output one set_output call of this duration allows
GasPlant_max_change(duration) ==
    LET duration_minutes == duration * 15
    IN ramp_rate_mw_per_min * duration_minutes

\* set_output limiting the ramp on the way up only
GasPlant_ramp_up_only(current, target_mw, duration) ==
    LET max_change == GasPlant_max_change(duration)
    IN IF target_mw > current
          THEN Min(target_mw, current + max_change)
          ELSE target_mw

\* the ramp limit of set_output: the output reached from `current`
GasPlant_ramp(current, target_mw, duration) ==
    LET max_change == GasPlant_max_change(duration)
    IN IF target_mw > current
          THEN Min(target_mw, current + max_change)
          ELSE Max(target_mw, current - max_change)

\* set_output without its capacity limit
GasPlant_limit_to_capacity_missing(target_mw) == target_mw

\* set_output, "Limit to capacity"
GasPlant_limit_to_capacity(target_mw) == Min(target_mw, capacity_mw)

\* set_output counting an activation on every call that leaves the plant
\* running
GasPlant_set_output_counting_running_calls(g, target_mw, duration) ==
    LET target == GasPlant_limit_to_capacity(target_mw)
        actual_output == GasPlant_ramp(g.current_output_mw, target, duration)
        activated == actual_output > 0
        energy_mwh == actual_output * duration * EnergyPerPowerQuarter
        running == actual_output > 0
    IN [gas |-> [current_output_mw |-> actual_output,
                 total_runtime_hours |->
                     g.total_runtime_hours + (IF running THEN duration ELSE 0),
                 total_fuel_cost_eur |->
                     g.total_fuel_cost_eur
                       + (IF running THEN (energy_mwh * fuel_cost_per_mwh) \div 200 ELSE 0),
                 total_co2_tons |->
                     g.total_co2_tons
                       + (IF running THEN (energy_mwh * co2_per_mwh_tons) \div 20 ELSE 0),
                 activation_count |->
                     g.activation_count + (IF activated THEN 1 ELSE 0)],
        ret |-> actual_output]

\* GasPlant.set_output(target_mw, duration_hours): the plant after the call
\* and the value returned (actual output)
GasPlant_set_output(g, target_mw, duration) ==
    LET target == GasPlant_limit_to_capacity(target_mw)
        actual_output == GasPlant_ramp(g.current_output_mw, target, duration)
        activated == g.current_output_mw = 0 /\ actual_output > 0
        energy_mwh == actual_output * duration * EnergyPerPowerQuarter
        running == actual_output > 0
    IN [gas |-> [current_output_mw |-> actual_output,
                 total_runtime_hours |->
                     g.total_runtime_hours + (IF running THEN duration ELSE 0),
                 total_fuel_cost_eur |->
                     g.total_fuel_cost_eur
                       + (IF running THEN (energy_mwh * fuel_cost_per_mwh) \div 200 ELSE 0),
                 total_co2_tons |->
                     g.total_co2_tons
                       + (IF running THEN (energy_mwh * co2_per_mwh_tons) \div 20 ELSE 0),
                 activation_count |->
                     g.activation_count + (IF activated THEN 1 ELSE 0)],
        ret |-> actual_output]

\* GasPlant.shutdown()
GasPlant_shutdown(g) == [g EXCEPT !.current_output_mw = 0]

\* GasPlant.is_running
GasPlant_is_running(g) == g.current_output_mw > 0

-----------------------------------------------------------------------------
(* Wind turbines (energy_sources/wind_turbine.py) *)

CUT_IN_SPEED == 300

RATED_SPEED == 1200

CUT_OUT_SPEED == 2500

\* 9.0 MW per turbine
rated_power_mw == 90

num_turbines == 50

total_capacity_mw == rated_power_mw * num_turbines

\* calculate_power shutting down over the whole storm range, from 20 m/s up
WindTurbine_calculate_power_storm_shutdown(wind_speed) ==
    IF wind_speed >= 2000 THEN [power |-> 0, status |-> "shutdown_storm"]
    ELSE IF wind_speed < CUT_IN_SPEED THEN [power |-> 0, status |-> "insufficient_wind"]
    ELSE IF RATED_SPEED <= wind_speed /\ wind_speed < CUT_OUT_SPEED
         THEN [power |-> total_capacity_mw, status |-> "rated_power"]
    ELSE LET x == wind_speed - CUT_IN_SPEED
             span == RATED_SPEED - CUT_IN_SPEED
         IN [power |-> Round(x * x * x, (span * span * span) \div total_capacity_mw),
             status |-> "ramping"]

\* WindTurbine.calculate_power(wind_speed): power and status
WindTurbine_calculate_power(wind_speed) ==
    IF wind_speed >= CUT_OUT_SPEED THEN [power |-> 0, status |-> "shutdown_storm"]
    ELSE IF wind_speed < CUT_IN_SPEED THEN [power |-> 0, status |-> "insufficient_wind"]
    ELSE IF RATED_SPEED <= wind_speed /\ wind_speed < CUT_OUT_SPEED
         THEN [power |-> total_capacity_mw, status |-> "rated_power"]
    ELSE LET x == wind_speed - CUT_IN_SPEED
             span == RATED_SPEED - CUT_IN_SPEED
             \* capacity * (x/span)^3, dividing span^3 by the capacity first
             \* to stay within 32-bit integers
         IN [power |-> Round(x * x * x, (span * span * span) \div total_capacity_mw),
             status |-> "ramping"]

-----------------------------------------------------------------------------
(* Sine on the quarter-hour grid: SinQ(j) = 10000 * sin(j * pi / 48) *)

SinTable ==
    <<654, 1305, 1951, 2588, 3214, 3827, 4423, 5000, 5556, 6088, 6593, 7071,
      7518, 7934, 8315, 8660, 8969, 9239, 9469, 9659, 9808, 9914, 9979, 10000>>

SinQ(j) ==
    LET a == Abs(j) % 96
        half == IF a >= 48 THEN a - 48 ELSE a
        quarter == IF half > 24 THEN 48 - half ELSE half
        magnitude == IF quarter = 0 THEN 0 ELSE SinTable[quarter]
        negative == (j < 0) # (a >= 48)
    IN IF negative THEN 0 - magnitude ELSE magnitude

-----------------------------------------------------------------------------
(* Solar array (energy_sources/solar_array.py) *)

solar_capacity_mw == 2000

\* calculate_power with night starting only after 18:00, not at it
SolarArray_calculate_power_late_sunset(time_of_day, cloud_cover) ==
    IF time_of_day < 360 \/ time_of_day > 1080
    THEN [power |-> 0, status |-> "nighttime"]
    ELSE LET hours_since_sunrise == time_of_day - 360
             sun_elevation == SinQ(hours_since_sunrise \div 15)
             cloud_factor == 1000 - cloud_cover * 8
             base_power == (solar_capacity_mw * sun_elevation) \div 100
             actual_power == Round(base_power * cloud_factor, 100000)
         IN [power |-> actual_power,
             status |-> IF cloud_cover > 70 THEN "cloudy"
                        ELSE IF cloud_cover > 30 THEN "partly_cloudy"
                        ELSE "clear"]

\* SolarArray.calculate_power(time_of_day, cloud_cover): power and status
SolarArray_calculate_power(time_of_day, cloud_cover) ==
    IF time_of_day < 360 \/ time_of_day >= 1080
    THEN [power |-> 0, status |-> "nighttime"]
    ELSE LET hours_since_sunrise == time_of_day - 360
             sun_elevation == SinQ(hours_since_sunrise \div 15)
             cloud_factor == 1000 - cloud_cover * 8
             \* capacity * elevation in 0.001 MW
             base_power == (solar_capacity_mw * sun_elevation) \div 100
             actual_power == Round(base_power * cloud_factor, 100000)
         IN [power |-> actual_power,
             status |-> IF cloud_cover > 70 THEN "cloudy"
                        ELSE IF cloud_cover > 30 THEN "partly_cloudy"
                        ELSE "clear"]

-----------------------------------------------------------------------------
(* Demand model (demand_model.py) *)

base_load_mw == 3000

\* 1.5, in tenths
peak_multiplier == 15

industrial_load_mw == 500

\* DemandModel._residential_curve(hour)
DemandModel_residential_curve(hour) ==
    LET morning_peak == IF 360 <= hour /\ hour <= 600
                           THEN SinQ((hour - 480) \div 15) ELSE 0
        evening_peak == IF 960 <= hour /\ hour <= 1320
                           THEN SinQ((hour - 1080) \div 15) ELSE 0
        night_factor == IF (0 <= hour /\ hour < 360) \/ hour >= 1380 THEN 6 ELSE 10
        peak_factor == Max(morning_peak, evening_peak)
        \* (peak_multiplier - 1.0) * max(0, peak_factor), in 0.00001
        variation == (peak_multiplier - 10) * Max(0, peak_factor)
    IN Round(((base_load_mw * night_factor) \div 10) * (100000 + variation), 100000)

\* _temperature_load without the 50 MW and 30 MW caps
DemandModel_temperature_load_uncapped(temp, hour) ==
    IF hour < 360 \/ hour >= 1320 THEN 0
    ELSE IF temp < 100 THEN (100 - temp) * 3
    ELSE IF temp > 200 THEN (temp - 200) * 2
    ELSE 0

\* DemandModel._temperature_load(temp, hour)
DemandModel_temperature_load(temp, hour) ==
    IF hour < 360 \/ hour >= 1320 THEN 0
    ELSE IF temp < 100 THEN Min((100 - temp) * 3, 500)
    ELSE IF temp > 200 THEN Min((temp - 200) * 2, 300)
    ELSE 0

\* DemandModel.calculate_demand(time_of_day, temperature)
DemandModel_calculate_demand(enabled, time_of_day, temperature) ==
    LET residential == DemandModel_residential_curve(time_of_day)
        industrial == IF enabled THEN industrial_load_mw ELSE 0
        heating_cooling == DemandModel_temperature_load(temperature, time_of_day)
    IN [base_load |-> residential,
        industrial_load |-> industrial,
        heating_cooling_load |-> heating_cooling,
        total_demand |-> residential + industrial + heating_cooling]

-----------------------------------------------------------------------------
(* Grid controller (grid_controller.py) *)

\* the gas decision without its tolerance
GridController_still_short_no_tolerance(deficit) == deficit > 0

\* balance_grid, "Still short? Activate gas": the 0.1 MW tolerance
GridController_still_short(deficit) == deficit > 1

\* GridController.balance_grid: the battery, gas plant and gas_active flag
\* after the call, and the dict returned
GridController_balance_grid(demand_mw, wind_output, solar_output, b, g, active, duration) ==
    LET renewable_supply == wind_output + solar_output
        balance == renewable_supply - demand_mw
        surplus == balance > 0
        ch == Battery_charge(b, balance, duration)
        dis == Battery_discharge(b, Abs(balance), duration)
        deficit == Abs(balance) - dis.ret
        dispatch == GridController_still_short(deficit)
        set == GasPlant_set_output(g, IF dispatch THEN deficit ELSE 0, duration)
        battery_action == IF surplus THEN 0 - ch.ret ELSE dis.ret
        gas_output == IF ~surplus /\ dispatch THEN set.ret ELSE 0
        total_supply == renewable_supply + battery_action + gas_output
        renewable_contribution == renewable_supply + Max(0, battery_action)
    IN [battery |-> IF surplus THEN ch.battery ELSE dis.battery,
        gas |-> IF surplus THEN g ELSE set.gas,
        gas_active |-> IF surplus THEN active ELSE dispatch,
        result |-> [demand |-> demand_mw,
                    wind_output |-> wind_output,
                    solar_output |-> solar_output,
                    battery_action |-> battery_action,
                    gas_output |-> gas_output,
                    total_supply |-> total_supply,
                    balance |-> total_supply - demand_mw,
                    renewable_percent |->
                        IF total_supply > 0
                           THEN (renewable_contribution * 10000) \div total_supply
                           ELSE 0,
                    grid_stable |-> total_supply >= demand_mw],
        battery_limited |-> IF surplus THEN ch.limited ELSE dis.limited]

-----------------------------------------------------------------------------
(* Clock (time_manager.py) *)

tick_duration_minutes == 15

TimeManager_init == [current_hour |-> 0, current_day |-> 1, total_ticks |-> 0]

\* a clock that rolls over only once the hour has passed 24:00
TimeManager_tick_wrapping_late(t) ==
    LET hours_per_tick == tick_duration_minutes
        hour == t.current_hour + hours_per_tick
        rolls == hour > 1440
    IN [current_hour |-> IF rolls THEN hour - 1440 ELSE hour,
        current_day |-> IF rolls THEN t.current_day + 1 ELSE t.current_day,
        total_ticks |-> t.total_ticks + 1]

\* TimeManager.tick()
TimeManager_tick(t) ==
    LET hours_per_tick == tick_duration_minutes
        hour == t.current_hour + hours_per_tick
        rolls == hour >= 1440
    IN [current_hour |-> IF rolls THEN hour - 1440 ELSE hour,
        current_day |-> IF rolls THEN t.current_day + 1 ELSE t.current_day,
        total_ticks |-> t.total_ticks + 1]

\* a reset that starts the next day instead of day 1
TimeManager_reset_next_day(t) ==
    [current_hour |-> 0, current_day |-> t.current_day + 1, total_ticks |-> 0]

\* TimeManager.reset()
TimeManager_reset(t) == [current_hour |-> 0, current_day |-> 1, total_ticks |-> 0]

-----------------------------------------------------------------------------
(* Weather (weather_system.py) *)

mean_wind == 800

\* WeatherSystem(): the constructor's defaults, which are also the values
\* SimulationEngine.__init__ passes
WeatherSystem_init == [wind_speed |-> 800, cloud_cover |-> 30, temperature |-> 120]

Clamp(lo, hi, x) == Max(lo, Min(hi, x))

\* WeatherSystem.update(), given what the random generator draws: the wind
\* change in [-0.8, 0.8], whether clouds and temperature change, and by what
WeatherSystem_update(w, wind_change, clouds_move, cloud_change, temp_moves, temp_change) ==
    LET drift == ((mean_wind - w.wind_speed) * 5) \div 100
        change == wind_change + drift
    IN [wind_speed |-> Clamp(0, 3000, w.wind_speed + change),
        cloud_cover |-> IF clouds_move
                           THEN Clamp(0, 100, w.cloud_cover + cloud_change)
                           ELSE w.cloud_cover,
        temperature |-> IF temp_moves
                           THEN Clamp(-100, 350, w.temperature + temp_change)
                           ELSE w.temperature]

\* set_wind accepting the whole range WeatherState validates, up to 50 m/s
WeatherSystem_set_wind_up_to_50(w, speed) ==
    [w EXCEPT !.wind_speed = Clamp(0, 5000, speed)]

\* WeatherSystem.set_wind(speed)
WeatherSystem_set_wind(w, speed) == [w EXCEPT !.wind_speed = Clamp(0, 3000, speed)]

\* WeatherSystem.set_clouds(cover)
WeatherSystem_set_clouds(w, cover) == [w EXCEPT !.cloud_cover = Clamp(0, 100, cover)]

\* set_temperature without its clamp
WeatherSystem_set_temperature_unclamped(w, temp) == [w EXCEPT !.temperature = temp]

\* WeatherSystem.set_temperature(temp)
WeatherSystem_set_temperature(w, temp) == [w EXCEPT !.temperature = Clamp(-300, 500, temp)]

\* WeatherSystem.trigger_storm(), given the two uniform draws
WeatherSystem_trigger_storm(w, wind, clouds) ==
    [w EXCEPT !.wind_speed = wind, !.cloud_cover = clouds]

\* WeatherSystem.trigger_calm(), given the two uniform draws
WeatherSystem_trigger_calm(w, wind, clouds) ==
    [w EXCEPT !.wind_speed = wind, !.cloud_cover = clouds]

\* draws of random.uniform(-0.8, 0.8), (-0.15, 0.15) and (-0.5, 0.5)
WindChanges == {-80, 80}

CloudChanges == {15}

TempChanges == {-5}

\* draws of trigger_storm: uniform(20, 28) and uniform(0.8, 1.0)
StormWinds == {2650}

StormClouds == {90}

\* draws of trigger_calm: uniform(0, 2) and uniform(0, 0.3)
CalmWinds == {100}

CalmClouds == {10}

\* values the control surface is asked to set (the cloud cover and the
\* temperature are outside the range the setter accepts)
WindSettings == {0, 1500}

CloudSettings == {150}

TemperatureSettings == {-400}

-----------------------------------------------------------------------------
(* Simulation engine (simulation_engine.py) *)

cumulative_metrics_init ==
    [total_renewable_mwh |-> 0,
     total_demand_mwh |-> 0,
     total_co2_kg |-> 0,
     total_cost_eur |-> 0,
     gas_activations |-> 0,
     uptime_ticks |-> 0,
     total_ticks |-> 0]

\* SimulationEngine._calculate_renewable_percent(); both totals are whole
\* multiples of the energy one power unit delivers in a tick
SimulationEngine_calculate_renewable_percent(cm) ==
    IF cm.total_demand_mwh = 0 THEN 0
    ELSE ((cm.total_renewable_mwh \div EnergyPerPowerQuarter) * 10000)
            \div (cm.total_demand_mwh \div EnergyPerPowerQuarter)

\* SimulationEngine._calculate_uptime_percent()
SimulationEngine_calculate_uptime_percent(cm) ==
    IF cm.total_ticks = 0 THEN 10000
    ELSE (cm.uptime_ticks * 10000) \div cm.total_ticks

\* the metrics update counting renewable energy net of demand
SimulationEngine_update_metrics_net(cm, wind_power, solar_power, total_demand, g, stable) ==
    LET tick_hours == tick_duration_minutes \div 15
        renewable_energy == (wind_power + solar_power - total_demand)
                               * tick_hours * EnergyPerPowerQuarter
        total_energy == total_demand * tick_hours * EnergyPerPowerQuarter
    IN [total_renewable_mwh |-> cm.total_renewable_mwh + renewable_energy,
        total_demand_mwh |-> cm.total_demand_mwh + total_energy,
        total_co2_kg |-> cm.total_co2_kg + g.total_co2_tons * 10,
        total_cost_eur |-> cm.total_cost_eur + g.total_fuel_cost_eur,
        gas_activations |-> cm.gas_activations,
        uptime_ticks |-> cm.uptime_ticks + (IF stable THEN 1 ELSE 0),
        total_ticks |-> cm.total_ticks + 1]

\* tick(), "Update cumulative metrics": the metrics after this tick's increments
SimulationEngine_update_metrics(cm, wind_power, solar_power, total_demand, g, stable) ==
    LET tick_hours == tick_duration_minutes \div 15
        renewable_energy == (wind_power + solar_power) * tick_hours * EnergyPerPowerQuarter
        total_energy == total_demand * tick_hours * EnergyPerPowerQuarter
    IN [total_renewable_mwh |-> cm.total_renewable_mwh + renewable_energy,
        total_demand_mwh |-> cm.total_demand_mwh + total_energy,
        \* tons * 1000, from 0.0001 t to 0.01 kg
        total_co2_kg |-> cm.total_co2_kg + g.total_co2_tons * 10,
        total_cost_eur |-> cm.total_cost_eur + g.total_fuel_cost_eur,
        gas_activations |-> cm.gas_activations,
        uptime_ticks |-> cm.uptime_ticks + (IF stable THEN 1 ELSE 0),
        total_ticks |-> cm.total_ticks + 1]

\* a GridState that reports the clock after the tick's advance
GridState_build_after_advance(t, w, demand_data, wind_power, solar_power, b, g, cm, result) ==
    [simulation_day |-> TimeManager_tick(t).current_day,
     weather |-> [wind_speed |-> w.wind_speed,
                  cloud_cover |-> w.cloud_cover,
                  temperature |-> w.temperature,
                  time_of_day |-> TimeManager_tick(t).current_hour],
     demand |-> [base_load |-> demand_data.base_load,
                 industrial_load |-> demand_data.industrial_load,
                 heating_cooling_load |-> demand_data.heating_cooling_load],
     wind |-> [capacity_mw |-> num_turbines * rated_power_mw,
               current_output_mw |-> wind_power],
     solar |-> [capacity_mw |-> solar_capacity_mw,
                current_output_mw |-> solar_power],
     battery |-> [capacity_mw |-> max_discharge_rate_mw,
                  max_capacity_mwh |-> max_capacity_mwh,
                  current_charge_mwh |-> b.current_charge_mwh,
                  current_output_mw |-> result.battery_action],
     gas |-> [capacity_mw |-> capacity_mw,
              current_output_mw |-> g.current_output_mw,
              online |-> GasPlant_is_running(g)],
     metrics |-> [renewable_energy_percent |->
                      SimulationEngine_calculate_renewable_percent(cm),
                  co2_emissions_kg |-> cm.total_co2_kg,
                  operational_cost_eur |-> cm.total_cost_eur,
                  grid_uptime_percent |-> SimulationEngine_calculate_uptime_percent(cm),
                  gas_activation_count |-> g.activation_count,
                  battery_cycles |-> b.total_cycles]]

\* The GridState tick() builds (models/grid_state.py), without its timestamp
GridState_build(t, w, demand_data, wind_power, solar_power, b, g, cm, result) ==
    [simulation_day |-> t.current_day,
     weather |-> [wind_speed |-> w.wind_speed,
                  cloud_cover |-> w.cloud_cover,
                  temperature |-> w.temperature,
                  time_of_day |-> t.current_hour],
     demand |-> [base_load |-> demand_data.base_load,
                 industrial_load |-> demand_data.industrial_load,
                 heating_cooling_load |-> demand_data.heating_cooling_load],
     wind |-> [capacity_mw |-> num_turbines * rated_power_mw,
               current_output_mw |-> wind_power],
     solar |-> [capacity_mw |-> solar_capacity_mw,
                current_output_mw |-> solar_power],
     battery |-> [capacity_mw |-> max_discharge_rate_mw,
                  max_capacity_mwh |-> max_capacity_mwh,
                  current_charge_mwh |-> b.current_charge_mwh,
                  current_output_mw |-> result.battery_action],
     gas |-> [capacity_mw |-> capacity_mw,
              current_output_mw |-> g.current_output_mw,
              online |-> GasPlant_is_running(g)],
     metrics |-> [renewable_energy_percent |->
                      SimulationEngine_calculate_renewable_percent(cm),
                  co2_emissions_kg |-> cm.total_co2_kg,
                  operational_cost_eur |-> cm.total_cost_eur,
                  grid_uptime_percent |-> SimulationEngine_calculate_uptime_percent(cm),
                  gas_activation_count |-> g.activation_count,
                  battery_cycles |-> b.total_cycles]]

\* What the model keeps of a returned GridState: all of it but the copy of
\* wind speed, cloud cover and temperature, which is checked when the
\* GridState is built and read by no property
GridState_retained(s) ==
    [s EXCEPT !.weather = [time_of_day |-> s.weather.time_of_day]]

\* The Field(ge=, le=, gt=) constraints pydantic checks when the GridState is
\* built; a violated constraint raises ValidationError
WeatherState_valid(ws) ==
    /\ 0 <= ws.wind_speed /\ ws.wind_speed <= 5000
    /\ 0 <= ws.cloud_cover /\ ws.cloud_cover <= 100
    /\ -300 <= ws.temperature /\ ws.temperature <= 500
    /\ 0 <= ws.time_of_day /\ ws.time_of_day <= 1440

DemandState_valid(ds) ==
    ds.base_load >= 0 /\ ds.industrial_load >= 0 /\ ds.heating_cooling_load >= 0

EnergySource_valid(es) == es.capacity_mw > 0 /\ es.current_output_mw >= 0

BatteryState_valid(bs) ==
    EnergySource_valid(bs) /\ bs.max_capacity_mwh > 0 /\ bs.current_charge_mwh >= 0

Metrics_valid(m) ==
    /\ 0 <= m.renewable_energy_percent /\ m.renewable_energy_percent <= 10000
    /\ m.co2_emissions_kg >= 0
    /\ m.operational_cost_eur >= 0
    /\ 0 <= m.grid_uptime_percent /\ m.grid_uptime_percent <= 10000
    /\ m.gas_activation_count >= 0
    /\ m.battery_cycles >= 0

GridState_valid(s) ==
    /\ s.simulation_day >= 1
    /\ WeatherState_valid(s.weather)
    /\ DemandState_valid(s.demand)
    /\ EnergySource_valid(s.wind)
    /\ EnergySource_valid(s.solar)
    /\ BatteryState_valid(s.battery)
    /\ EnergySource_valid(s.gas)
    /\ Metrics_valid(s.metrics)

\* reset() that also puts the industrial load back to its initial setting
SimulationEngine_reset_restoring_industrial(e) ==
    [time |-> TimeManager_reset(e.time),
     weather |-> WeatherSystem_init,
     industrial_enabled |-> TRUE,
     battery |-> Battery_init,
     gas |-> GasPlant_init,
     gas_active |-> e.gas_active,
     cumulative_metrics |-> [k \in DOMAIN e.cumulative_metrics |-> 0]]

\* SimulationEngine.reset()
SimulationEngine_reset(e) ==
    [time |-> TimeManager_reset(e.time),
     weather |-> WeatherSystem_init,
     industrial_enabled |-> e.industrial_enabled,
     battery |-> Battery_init,
     gas |-> GasPlant_init,
     gas_active |-> e.gas_active,
     cumulative_metrics |-> [k \in DOMAIN e.cumulative_metrics |-> 0]]

\* the engine's state as one record
Engine ==
    [time |-> time,
     weather |-> weather,
     industrial_enabled |-> industrial_enabled,
     battery |-> battery,
     gas |-> gas,
     gas_active |-> gas_active,
     cumulative_metrics |-> cumulative_metrics]

-----------------------------------------------------------------------------
(* State machine *)

\* what `last` holds after an operation: its name, the duration it was given,
\* the gas output and the battery charge before it, whether it raised, the
\* dict balance_grid returned and the GridState tick() returned (each a
\* sequence of length 0 or 1)
Outcome(op, duration, raised, result, state) ==
    [op |-> op, duration |-> duration,
     gas_before |-> gas.current_output_mw,
     charge_before |-> battery.current_charge_mwh,
     raised |-> raised, result |-> result, state |-> state]

\* where a websocket_endpoint coroutine stands: the await it is suspended at,
\* the connection it is sending to, the index the for loop of broadcast
\* visits next, and the message it is sending
Position(at) == [at |-> at, to |-> "none", next |-> 0, message |-> <<>>]

\* SimulationEngine.__init__
Init ==
    /\ time = TimeManager_init
    /\ weather = WeatherSystem_init
    /\ industrial_enabled = TRUE
    /\ battery = Battery_init
    /\ gas = GasPlant_init
    /\ gas_active = FALSE
    /\ cumulative_metrics = cumulative_metrics_init
    /\ last = [op |-> "init", duration |-> 0, gas_before |-> 0,
               charge_before |-> Battery_init.current_charge_mwh,
               raised |-> FALSE, result |-> <<>>, state |-> <<>>]
    /\ calls = 0
    /\ snapshots = [keeping |-> FALSE, held |-> <<>>]
    /\ routes_sim_engine = <<>>
    /\ active_connections = <<>>
    /\ pc = [c \in Clients |-> Position("idle")]
    /\ received = [c \in Clients |-> <<>>]
    /\ running_task = "none"
    /\ period_ticks = 0
    /\ closed_sockets = {}

\* SimulationEngine.tick(), statement by statement, given what the random
\* generator draws in weather.update(): a ValidationError raised while the
\* GridState is built leaves the clock where it was and returns nothing
Tick ==
    /\ cumulative_metrics.total_ticks < MaxTicks
    /\ \E wind_change \in WindChanges, clouds_move \in BOOLEAN,
          cloud_change \in CloudChanges, temp_moves \in BOOLEAN,
          temp_change \in TempChanges :
       \E w \in {WeatherSystem_update(weather, wind_change, clouds_move,
                                      cloud_change, temp_moves, temp_change)} :
       \E wind \in {WindTurbine_calculate_power(w.wind_speed)},
          solar \in {SolarArray_calculate_power(time.current_hour, w.cloud_cover)},
          demand_data \in {DemandModel_calculate_demand(industrial_enabled,
                                                        time.current_hour,
                                                        w.temperature)} :
       \E bal \in {GridController_balance_grid(demand_data.total_demand, wind.power,
                                               solar.power, battery, gas, gas_active,
                                               tick_duration_minutes \div 15)} :
       \E cm \in {SimulationEngine_update_metrics(cumulative_metrics, wind.power,
                                                  solar.power, demand_data.total_demand,
                                                  bal.gas, bal.result.grid_stable)} :
       \E state \in {GridState_build(time, w, demand_data, wind.power, solar.power,
                                     bal.battery, bal.gas, cm, bal.result)} :
       \E raises \in {~GridState_valid(state)} :
          /\ weather' = w
          /\ battery' = bal.battery
          /\ gas' = bal.gas
          /\ gas_active' = bal.gas_active
          /\ cumulative_metrics' = cm
          /\ time' = IF raises THEN time ELSE TimeManager_tick(time)
          /\ last' = Outcome("tick", tick_duration_minutes \div 15, raises,
                             <<bal.result>>,
                             IF raises THEN <<>> ELSE <<GridState_retained(state)>>)
          /\ snapshots' = IF snapshots.keeping /\ ~raises
                                /\ Len(snapshots.held) < MaxHeld
                             THEN [snapshots EXCEPT !.held = Append(@, state)]
                             ELSE snapshots
    /\ UNCHANGED <<industrial_enabled, calls>>
    /\ UNCHANGED server_vars

\* SimulationEngine.reset()
Reset ==
    LET r == SimulationEngine_reset(Engine)
    IN /\ time' = r.time
       /\ weather' = r.weather
       /\ industrial_enabled' = r.industrial_enabled
       /\ battery' = r.battery
       /\ gas' = r.gas
       /\ gas_active' = r.gas_active
       /\ cumulative_metrics' = r.cumulative_metrics
       /\ last' = Outcome("reset", 0, FALSE, <<>>, <<>>)
       /\ UNCHANGED calls
       /\ UNCHANGED <<snapshots, server_vars>>

\* routes.control_wind / weather.set_wind
SetWind ==
    /\ \E speed \in WindSettings : weather' = WeatherSystem_set_wind(weather, speed)
    /\ UNCHANGED <<time, industrial_enabled, battery, gas, gas_active,
                   cumulative_metrics, last, calls>>
    /\ UNCHANGED <<snapshots, server_vars>>

\* routes.control_clouds / weather.set_clouds
SetClouds ==
    /\ \E cover \in CloudSettings : weather' = WeatherSystem_set_clouds(weather, cover)
    /\ UNCHANGED <<time, industrial_enabled, battery, gas, gas_active,
                   cumulative_metrics, last, calls>>
    /\ UNCHANGED <<snapshots, server_vars>>

\* routes.control_temperature / weather.set_temperature
SetTemperature ==
    /\ \E temp \in TemperatureSettings :
          weather' = WeatherSystem_set_temperature(weather, temp)
    /\ UNCHANGED <<time, industrial_enabled, battery, gas, gas_active,
                   cumulative_metrics, last, calls>>
    /\ UNCHANGED <<snapshots, server_vars>>

\* routes.control_industrial
SetIndustrial ==
    /\ \E enabled \in BOOLEAN : industrial_enabled' = enabled
    /\ UNCHANGED <<time, weather, battery, gas, gas_active,
                   cumulative_metrics, last, calls>>
    /\ UNCHANGED <<snapshots, server_vars>>

\* routes.trigger_storm / weather.trigger_storm
TriggerStorm ==
    /\ \E wind \in StormWinds, clouds \in StormClouds :
          weather' = WeatherSystem_trigger_storm(weather, wind, clouds)
    /\ UNCHANGED <<time, industrial_enabled, battery, gas, gas_active,
                   cumulative_metrics, last, calls>>
    /\ UNCHANGED <<snapshots, server_vars>>

\* routes.trigger_calm / weather.trigger_calm
TriggerCalm ==
    /\ \E wind \in CalmWinds, clouds \in CalmClouds :
          weather' = WeatherSystem_trigger_calm(weather, wind, clouds)
    /\ UNCHANGED <<time, industrial_enabled, battery, gas, gas_active,
                   cumulative_metrics, last, calls>>
    /\ UNCHANGED <<snapshots, server_vars>>

Next ==
    \/ Tick
    \/ Reset
    \/ SetWind
    \/ SetClouds
    \/ SetTemperature
    \/ SetIndustrial
    \/ TriggerStorm
    \/ TriggerCalm

Spec == Init /\ [][Next]_vars

-----------------------------------------------------------------------------
(* The controller driven directly, as grid_controller.py's own scenarios do: *)
(* one battery and one gas plant, balanced call after call                   *)

\* <<demand, wind, solar>> handed to balance_grid (0.1 MW): the three
\* scenarios of grid_controller.py, and a deficit 0.1 MW above what the
\* battery can deliver
BalanceInputs ==
    {<<4000, 5000, 500>>, <<4500, 3000, 500>>, <<4500, 500, 0>>, <<2300, 1299, 0>>}

\* balance_grid(demand_mw, wind_output, solar_output, battery, gas_plant)
\* with the default duration of 0.25 h
Balance ==
    /\ calls < MaxCalls
    /\ \E input \in BalanceInputs :
       \E r \in {GridController_balance_grid(input[1], input[2], input[3],
                                              battery, gas, gas_active, 1)} :
             /\ battery' = r.battery
             /\ gas' = r.gas
             /\ gas_active' = r.gas_active
             /\ last' = Outcome("balance_grid", 1, FALSE, <<r.result>>, <<>>)
    /\ calls' = calls + 1
    /\ UNCHANGED <<time, weather, industrial_enabled, cumulative_metrics>>
    /\ UNCHANGED <<snapshots, server_vars>>

NextGrid == Balance

SpecGrid == Init /\ [][NextGrid]_vars

-----------------------------------------------------------------------------
(* The gas plant driven directly, as gas_plant.py's own scenario does *)

\* targets (0.1 MW) and durations (quarter hours) handed to set_output
TargetInputs == {0, 1000, 2500, 4000}

DurationInputs == {0, 1, 4}

\* gas.set_output(target_mw, duration_hours)
SetOutput ==
    /\ calls < MaxCalls
    /\ \E target_mw \in TargetInputs, duration \in DurationInputs :
          LET r == GasPlant_set_output(gas, target_mw, duration)
          IN /\ gas' = r.gas
             /\ last' = Outcome("set_output", duration, FALSE, <<>>, <<>>)
    /\ calls' = calls + 1
    /\ UNCHANGED <<time, weather, industrial_enabled, battery, gas_active,
                   cumulative_metrics>>
    /\ UNCHANGED <<snapshots, server_vars>>

\* gas.shutdown()
Shutdown ==
    /\ calls < MaxCalls
    /\ gas' = GasPlant_shutdown(gas)
    /\ last' = Outcome("shutdown", 0, FALSE, <<>>, <<>>)
    /\ calls' = calls + 1
    /\ UNCHANGED <<time, weather, industrial_enabled, battery, gas_active,
                   cumulative_metrics>>
    /\ UNCHANGED <<snapshots, server_vars>>

NextGas == SetOutput \/ Shutdown

SpecGas == Init /\ [][NextGas]_vars

-----------------------------------------------------------------------------
(* The clock driven directly, as time_manager.py's own 96-tick scenario does *)

MaxAdvances == 200

\* time_mgr.tick()
Advance ==
    /\ time.total_ticks < MaxAdvances
    /\ time' = TimeManager_tick(time)
    /\ last' = Outcome("time.tick", tick_duration_minutes \div 15, FALSE, <<>>, <<>>)
    /\ UNCHANGED <<weather, industrial_enabled, battery, gas, gas_active,
                   cumulative_metrics, calls>>
    /\ UNCHANGED <<snapshots, server_vars>>

\* time_mgr.reset()
ClockReset ==
    /\ time' = TimeManager_reset(time)
    /\ last' = Outcome("time.reset", 0, FALSE, <<>>, <<>>)
    /\ UNCHANGED <<weather, industrial_enabled, battery, gas, gas_active,
                   cumulative_metrics, calls>>
    /\ UNCHANGED <<snapshots, server_vars>>

NextClock == Advance \/ ClockReset

SpecClock == Init /\ [][NextClock]_vars

-----------------------------------------------------------------------------
(* The weather driven directly: update() and the manual overrides *)

MaxWeatherCalls == 4

\* values handed to set_wind, set_clouds and set_temperature, inside and
\* outside the ranges the setters keep
WindRequests == {-500, 0, 1500, 3000, 4000, 5000}

CloudRequests == {-20, 50, 150}

TemperatureRequests == {-400, -300, 150, 500, 600}

\* draws of update(): uniform(-0.15, 0.15) and uniform(-0.5, 0.5)
CloudChangeDraws == {-15, 15}

TempChangeDraws == {-5, 5}

\* draws of trigger_storm, uniform(20, 28) and uniform(0.8, 1.0), and of
\* trigger_calm, uniform(0, 2) and uniform(0, 0.3)
StormWindDraws == {2000, 2800}

StormCloudDraws == {80, 100}

CalmWindDraws == {0, 200}

CalmCloudDraws == {0, 30}

\* weather.update()
WeatherUpdate ==
    /\ calls < MaxWeatherCalls
    /\ \E wind_change \in WindChanges, clouds_move \in BOOLEAN,
          cloud_change \in CloudChangeDraws, temp_moves \in BOOLEAN,
          temp_change \in TempChangeDraws :
          weather' = WeatherSystem_update(weather, wind_change, clouds_move,
                                          cloud_change, temp_moves, temp_change)
    /\ last' = Outcome("weather.update", 0, FALSE, <<>>, <<>>)
    /\ calls' = calls + 1
    /\ UNCHANGED <<time, industrial_enabled, battery, gas, gas_active,
                   cumulative_metrics>>
    /\ UNCHANGED <<snapshots, server_vars>>

\* weather.set_wind(speed)
WeatherSetWind ==
    /\ calls < MaxWeatherCalls
    /\ \E speed \in WindRequests :
          /\ weather' = WeatherSystem_set_wind(weather, speed)
          /\ last' = Outcome("weather.set_wind", 0, FALSE, <<speed>>, <<>>)
    /\ calls' = calls + 1
    /\ UNCHANGED <<time, industrial_enabled, battery, gas, gas_active,
                   cumulative_metrics>>
    /\ UNCHANGED <<snapshots, server_vars>>

\* weather.set_clouds(cover)
WeatherSetClouds ==
    /\ calls < MaxWeatherCalls
    /\ \E cover \in CloudRequests :
          /\ weather' = WeatherSystem_set_clouds(weather, cover)
          /\ last' = Outcome("weather.set_clouds", 0, FALSE, <<cover>>, <<>>)
    /\ calls' = calls + 1
    /\ UNCHANGED <<time, industrial_enabled, battery, gas, gas_active,
                   cumulative_metrics>>
    /\ UNCHANGED <<snapshots, server_vars>>

\* weather.set_temperature(temp)
WeatherSetTemperature ==
    /\ calls < MaxWeatherCalls
    /\ \E temp \in TemperatureRequests :
          /\ weather' = WeatherSystem_set_temperature(weather, temp)
          /\ last' = Outcome("weather.set_temperature", 0, FALSE, <<temp>>, <<>>)
    /\ calls' = calls + 1
    /\ UNCHANGED <<time, industrial_enabled, battery, gas, gas_active,
                   cumulative_metrics>>
    /\ UNCHANGED <<snapshots, server_vars>>

\* weather.trigger_storm()
WeatherStorm ==
    /\ calls < MaxWeatherCalls
    /\ \E wind \in StormWindDraws, clouds \in StormCloudDraws :
          weather' = WeatherSystem_trigger_storm(weather, wind, clouds)
    /\ last' = Outcome("weather.trigger_storm", 0, FALSE, <<>>, <<>>)
    /\ calls' = calls + 1
    /\ UNCHANGED <<time, industrial_enabled, battery, gas, gas_active,
                   cumulative_metrics>>
    /\ UNCHANGED <<snapshots, server_vars>>

\* weather.trigger_calm()
WeatherCalm ==
    /\ calls < MaxWeatherCalls
    /\ \E wind \in CalmWindDraws, clouds \in CalmCloudDraws :
          weather' = WeatherSystem_trigger_calm(weather, wind, clouds)
    /\ last' = Outcome("weather.trigger_calm", 0, FALSE, <<>>, <<>>)
    /\ calls' = calls + 1
    /\ UNCHANGED <<time, industrial_enabled, battery, gas, gas_active,
                   cumulative_metrics>>
    /\ UNCHANGED <<snapshots, server_vars>>

NextWeather ==
    \/ WeatherUpdate
    \/ WeatherSetWind
    \/ WeatherSetClouds
    \/ WeatherSetTemperature
    \/ WeatherStorm
    \/ WeatherCalm

SpecWeather == Init /\ [][NextWeather]_vars

-----------------------------------------------------------------------------
(* The generation and demand functions called directly, as the test blocks
   of wind_turbine.py, solar_array.py and demand_model.py do *)

\* wind speeds from 0 to 35 m/s in steps of 0.25 m/s
WindSpeedInputs == {25 * k : k \in 0..140}

MaxSourceCalls == 1

\* times of day from 0:00 to 24:00 in half hours
TimeInputs == {30 * k : k \in 0..48}

\* cloud covers at and around the status thresholds 0.3 and 0.7
CloudInputs == {0, 30, 31, 70, 71, 100}

\* temperatures from -30 to 50 degrees, at and around 10 and 20 degrees
TemperatureInputs == {-300, -67, 99, 100, 200, 201, 350, 500}

\* wind.calculate_power(wind_speed), for a listed wind speed, a wind speed
\* trigger_storm may draw or, as tick() calls it, the weather's wind speed
CalculateWindPower ==
    /\ calls < MaxSourceCalls
    /\ \E wind_speed \in WindSpeedInputs \cup StormWindDraws \cup {weather.wind_speed} :
       \E r \in {WindTurbine_calculate_power(wind_speed)} :
          last' = Outcome("wind.calculate_power", 0, FALSE,
                          <<[wind_speed |-> wind_speed,
                             power |-> r.power, status |-> r.status]>>, <<>>)
    /\ calls' = calls + 1
    /\ UNCHANGED <<time, weather, industrial_enabled, battery, gas, gas_active,
                   cumulative_metrics>>
    /\ UNCHANGED <<snapshots, server_vars>>

\* solar.calculate_power(time_of_day, cloud_cover)
CalculateSolarPower ==
    /\ calls < MaxSourceCalls
    /\ \E time_of_day \in TimeInputs, cloud_cover \in CloudInputs :
       \E r \in {SolarArray_calculate_power(time_of_day, cloud_cover)} :
          last' = Outcome("solar.calculate_power", 0, FALSE,
                          <<[time_of_day |-> time_of_day, cloud_cover |-> cloud_cover,
                             power |-> r.power, status |-> r.status]>>, <<>>)
    /\ calls' = calls + 1
    /\ UNCHANGED <<time, weather, industrial_enabled, battery, gas, gas_active,
                   cumulative_metrics>>
    /\ UNCHANGED <<snapshots, server_vars>>

\* demand.calculate_demand(time_of_day, temperature) with the industrial
\* flag on or off
CalculateDemand ==
    /\ calls < MaxSourceCalls
    /\ \E enabled \in BOOLEAN, time_of_day \in TimeInputs,
          temperature \in TemperatureInputs :
       \E r \in {DemandModel_calculate_demand(enabled, time_of_day, temperature)} :
          last' = Outcome("demand.calculate_demand", 0, FALSE,
                          <<[industrial_enabled |-> enabled,
                             time_of_day |-> time_of_day,
                             temperature |-> temperature,
                             demand |-> r]>>, <<>>)
    /\ calls' = calls + 1
    /\ UNCHANGED <<time, weather, industrial_enabled, battery, gas, gas_active,
                   cumulative_metrics>>
    /\ UNCHANGED <<snapshots, server_vars>>

NextSources ==
    \/ CalculateWindPower
    \/ CalculateSolarPower
    \/ CalculateDemand

SpecSources == Init /\ [][NextSources]_vars

-----------------------------------------------------------------------------
(* The battery driven directly, as battery.py's own scenario does *)

MaxBatteryCalls == 3

\* powers (0.1 MW) and durations (quarter hours) handed to charge() and
\* discharge()
PowerInputs == {0, 361, 400, 1000, 1500}

BatteryDurationInputs == {0, 1, 4}

\* battery.charge(power_mw, duration_hours); last.result holds the request,
\* the value returned and the energy stored
BatteryCharge ==
    /\ calls < MaxBatteryCalls
    /\ \E power_mw \in PowerInputs, duration \in BatteryDurationInputs :
          \E r \in {Battery_charge(battery, power_mw, duration)} :
             /\ battery' = r.battery
             /\ last' = Outcome("battery.charge", duration, FALSE,
                                <<[power_mw |-> power_mw, ret |-> r.ret,
                                   energy |-> r.energy]>>, <<>>)
    /\ calls' = calls + 1
    /\ UNCHANGED <<time, weather, industrial_enabled, gas, gas_active,
                   cumulative_metrics>>
    /\ UNCHANGED <<snapshots, server_vars>>

\* battery.discharge(power_mw, duration_hours); last.result holds the
\* request, the value returned and the energy taken from storage
BatteryDischarge ==
    /\ calls < MaxBatteryCalls
    /\ \E power_mw \in PowerInputs, duration \in BatteryDurationInputs :
          \E r \in {Battery_discharge(battery, power_mw, duration)} :
             /\ battery' = r.battery
             /\ last' = Outcome("battery.discharge", duration, FALSE,
                                <<[power_mw |-> power_mw, ret |-> r.ret,
                                   energy |-> r.energy]>>, <<>>)
    /\ calls' = calls + 1
    /\ UNCHANGED <<time, weather, industrial_enabled, gas, gas_active,
                   cumulative_metrics>>
    /\ UNCHANGED <<snapshots, server_vars>>

NextBattery == BatteryCharge \/ BatteryDischarge

SpecBattery == Init /\ [][NextBattery]_vars

-----------------------------------------------------------------------------
(* A caller of tick() that keeps hold of the GridState it is handed *)

\* as if BatteryState kept a reference to the engine's battery
GridState_read_through_battery(s, e) ==
    [s EXCEPT !.battery.current_charge_mwh = e.battery.current_charge_mwh]

\* What the fields of a GridState built earlier read as once the engine is
\* in state e: tick() hands every field to the constructors as a float, int
\* or enum it has just evaluated, never one of the engine's objects or dicts,
\* so the fields read as they were built
GridState_read(s, e) == s

\* the caller of the first tick() starts keeping the snapshots returned
KeepSnapshots ==
    /\ ~snapshots.keeping
    /\ last.op = "init"
    /\ snapshots' = [snapshots EXCEPT !.keeping = TRUE]
    /\ UNCHANGED <<time, weather, industrial_enabled, battery, gas, gas_active,
                   cumulative_metrics, last, calls, server_vars>>

NextSnapshot ==
    \/ KeepSnapshots
    \/ Tick
    \/ Reset
    \/ SetIndustrial

SpecSnapshot == Init /\ [][NextSnapshot]_vars

-----------------------------------------------------------------------------
(* The engine at other times of day: engine.time is a public TimeManager,
   and calls of its tick() (time_manager.py 25-35) before the engine's first
   tick leave the clock that many quarter-hours after midnight of day 1.
   SpecDay runs tick() and reset() from such clocks, so that ticks before and
   after sunrise, in the demand peaks and across midnight are covered. *)

\* one day of quarter-hours
MaxDayAdvances == 96

\* engine.time.tick(), called before the engine's first tick
AdvanceBeforeTicks ==
    /\ last.op \in {"init", "time.tick"}
    /\ time.total_ticks < MaxDayAdvances
    /\ Advance

NextDay ==
    \/ AdvanceBeforeTicks
    \/ Tick
    \/ Reset

SpecDay == Init /\ [][NextDay]_vars

-----------------------------------------------------------------------------
(* The API layer: the REST routes (api/routes.py) and the WebSocket endpoint
   (api/websocket.py).  Every handler is a coroutine on one event loop and is
   suspended only at an await; one action is the code from one await to the
   next, and tick() is split after weather.update() so that a tick in flight
   is a state.  The engine websocket.py holds is the one the variables time
   .. cumulative_metrics describe, routes.py's is routes_sim_engine.  Clients
   stay connected, and of the routes the industrial toggle and the reset are
   taken. *)

\* SimulationEngine(): a newly constructed engine as one record
SimulationEngine_init ==
    [time |-> TimeManager_init,
     weather |-> WeatherSystem_init,
     industrial_enabled |-> TRUE,
     battery |-> Battery_init,
     gas |-> GasPlant_init,
     gas_active |-> FALSE,
     cumulative_metrics |-> cumulative_metrics_init]

\* routes.get_simulation(): routes.py's engine, created on first use
get_simulation ==
    IF routes_sim_engine = <<>> THEN SimulationEngine_init ELSE routes_sim_engine[1]

\* an event loop that could start a task while another has not reached an
\* await
EventLoop_may_resume_preemptively(task) == TRUE

\* the event loop resumes a suspended task only once the running one has
\* reached an await
EventLoop_may_resume(task) == running_task = "none"

\* routes.control_industrial(request)
control_industrial ==
    /\ EventLoop_may_resume("control_industrial")
    /\ \E enabled \in BOOLEAN :
          routes_sim_engine' =
              <<[get_simulation EXCEPT !.industrial_enabled = enabled]>>
    /\ UNCHANGED <<time, weather, industrial_enabled, battery, gas, gas_active,
                   cumulative_metrics, last, calls, snapshots,
                   active_connections, pc, received, running_task, period_ticks,
                   closed_sockets>>

\* routes.reset_simulation(): sim_engine = SimulationEngine()
reset_simulation ==
    /\ EventLoop_may_resume("reset_simulation")
    /\ routes_sim_engine' = <<SimulationEngine_init>>
    /\ UNCHANGED <<time, weather, industrial_enabled, battery, gas, gas_active,
                   cumulative_metrics, last, calls, snapshots,
                   active_connections, pc, received, running_task, period_ticks,
                   closed_sockets>>

\* the "state_update" message built from a GridState,
\* json.loads(state.model_dump_json()); of the data the day, the time of day
\* and the industrial load are kept
StateUpdate(state) ==
    [type |-> "state_update",
     data |-> [simulation_day |-> state.simulation_day,
               time_of_day |-> state.weather.time_of_day,
               industrial_load |-> state.demand.industrial_load]]

\* websocket_endpoint(websocket) up to the await in manager.connect; the
\* engine websocket.py creates here when it has none is the one Init describes
websocket_endpoint(c) ==
    /\ EventLoop_may_resume(c)
    /\ pc[c].at = "idle"
    /\ pc' = [pc EXCEPT ![c] = Position("accept")]
    /\ UNCHANGED <<time, weather, industrial_enabled, battery, gas, gas_active,
                   cumulative_metrics, last, calls, snapshots, routes_sim_engine,
                   active_connections, received, running_task, period_ticks,
                   closed_sockets>>

\* tick() begins in coroutine c: weather.update() has run
TickBegins(c, at) ==
    /\ cumulative_metrics.total_ticks < MaxServerTicks
    /\ \E wind_change \in WindChanges, cloud_change \in CloudChanges,
          temp_change \in TempChanges :
          weather' = WeatherSystem_update(weather, wind_change, FALSE,
                                          cloud_change, FALSE, temp_change)
    /\ pc' = [pc EXCEPT ![c] = Position(at)]
    /\ running_task' = c

\* websocket.accept() has returned: manager.connect appends the connection
\* and the endpoint calls tick() for the initial state
Accepted(c) ==
    /\ EventLoop_may_resume(c)
    /\ pc[c].at = "accept"
    /\ active_connections' = Append(active_connections, c)
    /\ TickBegins(c, "tick_initial")
    /\ UNCHANGED <<time, industrial_enabled, battery, gas, gas_active,
                   cumulative_metrics, last, calls, snapshots, routes_sim_engine,
                   received, period_ticks,
                   closed_sockets>>

\* asyncio.sleep(2.0) has returned: the loop calls tick()
Wake(c) ==
    /\ EventLoop_may_resume(c)
    /\ pc[c].at = "due"
    /\ TickBegins(c, "tick_loop")
    /\ UNCHANGED <<time, industrial_enabled, battery, gas, gas_active,
                   cumulative_metrics, last, calls, snapshots, routes_sim_engine,
                   active_connections, received, period_ticks,
                   closed_sockets>>

\* manager.disconnect(websocket)
ConnectionManager_disconnect(connections, c) ==
    SelectSeq(connections, LAMBDA x : x # c)

\* the rest of tick(), and the endpoint up to its next await: the send of
\* the initial state, or the first send of manager.broadcast; a
\* ValidationError ends the coroutine in manager.disconnect
TickEnds(c) ==
    /\ running_task = c
    /\ pc[c].at \in {"tick_initial", "tick_loop"}
    /\ \E wind \in {WindTurbine_calculate_power(weather.wind_speed)},
          solar \in {SolarArray_calculate_power(time.current_hour, weather.cloud_cover)},
          demand_data \in {DemandModel_calculate_demand(industrial_enabled,
                                                        time.current_hour,
                                                        weather.temperature)} :
       \E bal \in {GridController_balance_grid(demand_data.total_demand, wind.power,
                                               solar.power, battery, gas, gas_active,
                                               tick_duration_minutes \div 15)} :
       \E cm \in {SimulationEngine_update_metrics(cumulative_metrics, wind.power,
                                                  solar.power, demand_data.total_demand,
                                                  bal.gas, bal.result.grid_stable)} :
       \E state \in {GridState_build(time, weather, demand_data, wind.power,
                                     solar.power, bal.battery, bal.gas, cm,
                                     bal.result)} :
       \E raises \in {~GridState_valid(state)} :
          /\ battery' = bal.battery
          /\ gas' = bal.gas
          /\ gas_active' = bal.gas_active
          /\ cumulative_metrics' = cm
          /\ time' = IF raises THEN time ELSE TimeManager_tick(time)
          /\ last' = Outcome("tick", tick_duration_minutes \div 15, raises,
                             <<bal.result>>,
                             IF raises THEN <<>> ELSE <<GridState_retained(state)>>)
          /\ active_connections' =
                IF raises THEN ConnectionManager_disconnect(active_connections, c)
                          ELSE active_connections
          /\ pc' = [pc EXCEPT ![c] =
                      IF raises THEN Position("closed")
                      ELSE IF pc[c].at = "tick_initial"
                      THEN [at |-> "send_initial", to |-> c, next |-> 0,
                            message |-> <<StateUpdate(state)>>]
                      ELSE [at |-> "broadcast", to |-> active_connections[1],
                            next |-> 2, message |-> <<StateUpdate(state)>>]]
    /\ period_ticks' = IF pc[c].at = "tick_loop" THEN period_ticks + 1
                                                  ELSE period_ticks
    /\ running_task' = "none"
    /\ UNCHANGED <<weather, industrial_enabled, calls, snapshots,
                   routes_sim_engine, received,
                   closed_sockets>>

\* websocket.send_json of the initial state has returned: the client has the
\* message and the coroutine sleeps in its loop
InitialSent(c) ==
    /\ EventLoop_may_resume(c)
    /\ pc[c].at = "send_initial"
    /\ received' = [received EXCEPT ![c] = Append(@, pc[c].message[1])]
    /\ pc' = [pc EXCEPT ![c] = Position("sleep")]
    /\ UNCHANGED <<time, weather, industrial_enabled, battery, gas, gas_active,
                   cumulative_metrics, last, calls, snapshots, routes_sim_engine,
                   active_connections, running_task, period_ticks,
                   closed_sockets>>

\* a connection.send_json of manager.broadcast has returned: that client has
\* the message, and the for loop goes on to the next element of
\* active_connections or, at its end, the coroutine sleeps
BroadcastSent(c) ==
    /\ EventLoop_may_resume(c)
    /\ pc[c].at = "broadcast"
    /\ received' = [received EXCEPT ![pc[c].to] = Append(@, pc[c].message[1])]
    /\ pc' = [pc EXCEPT ![c] =
                IF pc[c].next <= Len(active_connections)
                THEN [pc[c] EXCEPT !.to = active_connections[pc[c].next],
                                   !.next = pc[c].next + 1]
                ELSE Position("sleep")]
    /\ UNCHANGED <<time, weather, industrial_enabled, battery, gas, gas_active,
                   cumulative_metrics, last, calls, snapshots, routes_sim_engine,
                   active_connections, running_task, period_ticks,
                   closed_sockets>>

\* two seconds pass once every coroutine has reached its sleep: each
\* asyncio.sleep(2.0) expires, and a new period begins
PeriodElapses ==
    /\ running_task = "none"
    /\ \A c \in Clients : pc[c].at \in {"idle", "sleep", "closed"}
    /\ \E c \in Clients : pc[c].at = "sleep"
    /\ pc' = [c \in Clients |->
                IF pc[c].at = "sleep" THEN Position("due") ELSE pc[c]]
    /\ period_ticks' = 0
    /\ UNCHANGED <<time, weather, industrial_enabled, battery, gas, gas_active,
                   cumulative_metrics, last, calls, snapshots, routes_sim_engine,
                   active_connections, received, running_task,
                   closed_sockets>>

NextServer ==
    \/ control_industrial
    \/ reset_simulation
    \/ \E c \in Clients : websocket_endpoint(c)
    \/ \E c \in Clients : Accepted(c)
    \/ \E c \in Clients : Wake(c)
    \/ \E c \in Clients : TickEnds(c)
    \/ \E c \in Clients : InitialSent(c)
    \/ \E c \in Clients : BroadcastSent(c)
    \/ PeriodElapses

SpecServer == Init /\ [][NextServer]_vars

-----------------------------------------------------------------------------
(* The REST routes' own engine ticked by requests: GET /api/state and
   POST /api/tick (routes.py 45-59), with the reset and the industrial
   toggle *)

MaxRequests == 3

\* SimulationEngine.tick() on the engine e as one record, given what the
\* random generator draws in weather.update(): the engine afterwards, the
\* GridState built, and whether building it raised ValidationError
SimulationEngine_tick(e, wind_change, clouds_move, cloud_change, temp_moves, temp_change) ==
    LET w == WeatherSystem_update(e.weather, wind_change, clouds_move, cloud_change,
                                  temp_moves, temp_change)
        wind == WindTurbine_calculate_power(w.wind_speed)
        solar == SolarArray_calculate_power(e.time.current_hour, w.cloud_cover)
        demand_data == DemandModel_calculate_demand(e.industrial_enabled,
                                                    e.time.current_hour, w.temperature)
        bal == GridController_balance_grid(demand_data.total_demand, wind.power,
                                           solar.power, e.battery, e.gas, e.gas_active,
                                           tick_duration_minutes \div 15)
        cm == SimulationEngine_update_metrics(e.cumulative_metrics, wind.power,
                                              solar.power, demand_data.total_demand,
                                              bal.gas, bal.result.grid_stable)
        state == GridState_build(e.time, w, demand_data, wind.power, solar.power,
                                 bal.battery, bal.gas, cm, bal.result)
        raises == ~GridState_valid(state)
    IN [engine |-> [time |-> IF raises THEN e.time ELSE TimeManager_tick(e.time),
                    weather |-> w,
                    industrial_enabled |-> e.industrial_enabled,
                    battery |-> bal.battery,
                    gas |-> bal.gas,
                    gas_active |-> bal.gas_active,
                    cumulative_metrics |-> cm],
        result |-> bal.result,
        state |-> state,
        raises |-> raises]

\* a route handler whose body is sim = get_simulation(); state = sim.tick();
\* return state
RouteTicks(route) ==
    /\ EventLoop_may_resume(route)
    /\ calls < MaxRequests
    /\ get_simulation.cumulative_metrics.total_ticks < MaxTicks
    /\ \E wind_change \in WindChanges, clouds_move \in BOOLEAN,
          cloud_change \in CloudChanges, temp_moves \in BOOLEAN,
          temp_change \in TempChanges :
       \E t \in {SimulationEngine_tick(get_simulation, wind_change, clouds_move,
                                       cloud_change, temp_moves, temp_change)} :
          /\ routes_sim_engine' = <<t.engine>>
          /\ last' = [op |-> route, duration |-> tick_duration_minutes \div 15,
                      gas_before |-> get_simulation.gas.current_output_mw,
                      charge_before |-> get_simulation.battery.current_charge_mwh,
                      raised |-> t.raises, result |-> <<t.result>>,
                      state |-> IF t.raises THEN <<>>
                                            ELSE <<GridState_retained(t.state)>>]
    /\ calls' = calls + 1
    /\ UNCHANGED <<time, weather, industrial_enabled, battery, gas, gas_active,
                   cumulative_metrics, snapshots, active_connections, pc, received,
                   running_task, period_ticks,
                   closed_sockets>>

\* routes.get_current_state(): GET /api/state
get_current_state == RouteTicks("get_current_state")

\* routes.advance_tick(): POST /api/tick
advance_tick == RouteTicks("advance_tick")

NextRoutes ==
    \/ get_current_state
    \/ advance_tick
    \/ reset_simulation
    \/ control_industrial

SpecRoutes == Init /\ [][NextRoutes]_vars

-----------------------------------------------------------------------------
(* The connection manager (websocket.py 15-37) with clients that go away.
   Each websocket_endpoint coroutine connects its socket, sends the initial
   state and then broadcasts in its loop; a send to a socket whose client has
   gone raises.  Here the engine's ticks succeed and are not followed (they
   are SpecServer's subject), one broadcast runs at a time, and no socket
   closes while it runs. *)

Sockets == {"c1", "c2", "c3"}

MaxBroadcasts == 2

\* list.remove(x) when x is in the list: the list without the first x
List_remove(list, x) ==
    LET i == CHOOSE k \in 1..Len(list) :
                 list[k] = x /\ \A j \in 1..(k - 1) : list[j] # x
    IN SubSeq(list, 1, i - 1) \o SubSeq(list, i + 1, Len(list))

\* list.remove(x) raises ValueError when x is not in the list
List_remove_raises(list, x) == \A k \in 1..Len(list) : list[k] # x

RECURSIVE ConnectionManager_broadcast(_, _, _, _)
\* ConnectionManager.broadcast(message): the for loop over
\* self.active_connections from the list iterator's position index on, given
\* the sockets whose send_json raises; the iterator reads
\* active_connections[index] while index is within the list as it is then,
\* and the except branch removes the connection from the list being iterated.
\* sent lists the connections whose send returned, in order.
ConnectionManager_broadcast(connections, failing, index, sent) ==
    IF index > Len(connections)
    THEN [active_connections |-> connections, sent |-> sent]
    ELSE LET connection == connections[index]
         IN IF connection \in failing
            THEN ConnectionManager_broadcast(List_remove(connections, connection),
                                             failing, index + 1, sent)
            ELSE ConnectionManager_broadcast(connections, failing, index + 1,
                                             Append(sent, connection))

InitConnections ==
    /\ time = TimeManager_init
    /\ weather = WeatherSystem_init
    /\ industrial_enabled = TRUE
    /\ battery = Battery_init
    /\ gas = GasPlant_init
    /\ gas_active = FALSE
    /\ cumulative_metrics = cumulative_metrics_init
    /\ last = [op |-> "init", duration |-> 0, gas_before |-> 0,
               charge_before |-> Battery_init.current_charge_mwh,
               raised |-> FALSE, result |-> <<>>, state |-> <<>>]
    /\ calls = 0
    /\ snapshots = [keeping |-> FALSE, held |-> <<>>]
    /\ routes_sim_engine = <<>>
    /\ active_connections = <<>>
    /\ pc = [c \in Sockets |-> Position("idle")]
    /\ received = [c \in Sockets |-> <<>>]
    /\ running_task = "none"
    /\ period_ticks = 0
    /\ closed_sockets = {}

\* websocket_endpoint(websocket) up to its first send: manager.connect
\* accepts and appends the connection, and the initial state is being sent
Connects(c) ==
    /\ pc[c].at = "idle"
    /\ active_connections' = Append(active_connections, c)
    /\ pc' = [pc EXCEPT ![c] = Position("send_initial")]
    /\ UNCHANGED <<time, weather, industrial_enabled, battery, gas, gas_active,
                   cumulative_metrics, last, calls, snapshots, routes_sim_engine,
                   received, running_task, period_ticks, closed_sockets>>

\* the client of a connected socket goes away
SocketCloses(c) ==
    /\ pc[c].at \in {"send_initial", "sleep"}
    /\ c \notin closed_sockets
    /\ closed_sockets' = closed_sockets \cup {c}
    /\ UNCHANGED <<time, weather, industrial_enabled, battery, gas, gas_active,
                   cumulative_metrics, last, calls, snapshots, routes_sim_engine,
                   active_connections, pc, received, running_task, period_ticks>>

\* the send of the initial state returns, and the coroutine sleeps in its
\* loop; or it raises because the client has gone, and the except clause
\* calls manager.disconnect(websocket), whose list.remove raises ValueError
\* when the connection is no longer in active_connections
InitialSendReturns(c) ==
    /\ pc[c].at = "send_initial"
    /\ IF c \notin closed_sockets
       THEN /\ received' = [received EXCEPT ![c] = Append(@, 0)]
            /\ pc' = [pc EXCEPT ![c] = Position("sleep")]
            /\ UNCHANGED <<active_connections, last>>
       ELSE /\ active_connections' =
                  IF List_remove_raises(active_connections, c)
                  THEN active_connections
                  ELSE List_remove(active_connections, c)
            /\ last' = Outcome("disconnect", 0,
                               List_remove_raises(active_connections, c),
                               <<[websocket |-> c,
                                  connections |-> active_connections]>>, <<>>)
            /\ pc' = [pc EXCEPT ![c] = Position("closed")]
            /\ UNCHANGED received
    /\ UNCHANGED <<time, weather, industrial_enabled, battery, gas, gas_active,
                   cumulative_metrics, calls, snapshots, routes_sim_engine,
                   running_task, period_ticks, closed_sockets>>

\* asyncio.sleep has returned in coroutine c and its tick has succeeded:
\* manager.broadcast(message) runs; the message is numbered by the broadcast
Broadcasts(c) ==
    /\ pc[c].at = "sleep"
    /\ calls < MaxBroadcasts
    /\ \E r \in {ConnectionManager_broadcast(active_connections, closed_sockets,
                                             1, <<>>)} :
          /\ active_connections' = r.active_connections
          /\ received' = [s \in Sockets |->
                            IF \E k \in 1..Len(r.sent) : r.sent[k] = s
                            THEN Append(received[s], calls + 1)
                            ELSE received[s]]
          /\ last' = Outcome("broadcast", 0, FALSE,
                             <<[connections |-> active_connections,
                                failing |-> closed_sockets,
                                sent |-> r.sent,
                                remaining |-> r.active_connections]>>, <<>>)
    /\ calls' = calls + 1
    /\ UNCHANGED <<time, weather, industrial_enabled, battery, gas, gas_active,
                   cumulative_metrics, snapshots, routes_sim_engine, pc,
                   running_task, period_ticks, closed_sockets>>

NextConnections ==
    \/ \E c \in Sockets : Connects(c)
    \/ \E c \in Sockets : SocketCloses(c)
    \/ \E c \in Sockets : InitialSendReturns(c)
    \/ \E c \in Sockets : Broadcasts(c)

SpecConnections == InitConnections /\ [][NextConnections]_vars

-----------------------------------------------------------------------------
(* Properties *)

\* the largest change of gas output the ramp rate allows the last operation
LastRampLimit == ramp_rate_mw_per_min * 15 * last.duration

\* C1: the battery's stored energy stays within 0 and max_capacity_mwh.
C1_BatteryChargeWithinCapacity ==
    0 <= battery.current_charge_mwh /\ battery.current_charge_mwh <= max_capacity_mwh

\* a charge that was cut short by the remaining headroom filled the battery
C1_Witness ==
    /\ last.op = "balance_grid"
    /\ battery.current_charge_mwh = max_capacity_mwh
    /\ last.charge_before < max_capacity_mwh
    /\ last.result[1].battery_action < 0
    /\ last.result[1].battery_action > 0 - max_charge_rate_mw

\* C2: every set_output call, direct or made by balance_grid or tick(), moves
\* the output by at most ramp rate times duration and leaves it within 0 and
\* capacity_mw; only shutdown() may move a plant's output further.
C2_GasRampLimited ==
    /\ 0 <= gas.current_output_mw /\ gas.current_output_mw <= capacity_mw
    /\ last.op \in {"set_output", "balance_grid", "tick"} =>
          Abs(gas.current_output_mw - last.gas_before) <= LastRampLimit

\* set_output asked for less than the ramp allows and was held at the limit
C2_Witness ==
    /\ last.op = "set_output"
    /\ last.duration = 1
    /\ last.gas_before = capacity_mw
    /\ gas.current_output_mw = capacity_mw - LastRampLimit

\* C3: tick() returns a GridState from every reachable engine state and
\* never raises.
C3_TickAlwaysReturns ==
    last.op = "tick" => (~last.raised /\ Len(last.state) = 1)

\* C4: a tick applies all of its effects or none, so the cumulative tick
\* count always equals the clock's tick count.
C4_TickAtomic ==
    cumulative_metrics.total_ticks = time.total_ticks

\* C5: between two resets no cumulative metric decreases from one tick to
\* the next, whatever control operations are interleaved.
C5_CumulativeNeverDecrease ==
    [][ \/ last'.op = "reset"
        \/ /\ cumulative_metrics'.total_renewable_mwh >= cumulative_metrics.total_renewable_mwh
           /\ cumulative_metrics'.total_demand_mwh >= cumulative_metrics.total_demand_mwh
           /\ cumulative_metrics'.total_co2_kg >= cumulative_metrics.total_co2_kg
           /\ cumulative_metrics'.total_cost_eur >= cumulative_metrics.total_cost_eur
           /\ cumulative_metrics'.total_ticks >= cumulative_metrics.total_ticks ]_vars

\* two ticks since the last reset, with gas burnt and renewables delivered
C5_Witness ==
    /\ last.op = "tick"
    /\ cumulative_metrics.total_ticks = 2
    /\ cumulative_metrics.total_co2_kg > 0
    /\ cumulative_metrics.total_renewable_mwh > 0

\* C6: the engine's CO2 and cost totals equal what the gas plant emitted and
\* spent (1000 * total_co2_tons and total_fuel_cost_eur).
C6_TotalsEqualGasTotals ==
    /\ cumulative_metrics.total_co2_kg = gas.total_co2_tons * 10
    /\ cumulative_metrics.total_cost_eur = gas.total_fuel_cost_eur

\* C7: reset() is idempotent: resetting twice leaves the engine as resetting
\* once does.
C7_ResetIdempotent ==
    SimulationEngine_reset(SimulationEngine_reset(Engine)) = SimulationEngine_reset(Engine)

\* a reset of an engine that had ticked (the controller flag it keeps is set)
\* and whose industrial load had been switched off
C7_Witness ==
    /\ last.op = "reset"
    /\ gas_active
    /\ ~industrial_enabled
    /\ cumulative_metrics.total_ticks = 0
    /\ SimulationEngine_reset(Engine) = Engine

\* C8: a tick is reported unstable only when renewables, battery and gas
\* cannot cover demand: if the deficit left after the battery is within what
\* the gas plant can deliver, the tick is stable.
C8_UnstableOnlyWhenSupplyShort ==
    last.op = "balance_grid" =>
        LET res == last.result[1]
            remaining == res.demand - res.wind_output - res.solar_output
                            - res.battery_action
            gas_can_deliver == Min(capacity_mw, last.gas_before + LastRampLimit)
        IN remaining <= gas_can_deliver => res.grid_stable

\* C9: in a deficit the battery is discharged first; gas is dispatched, and
\* gas_active set, exactly when more than 0.1 MW is still missing, and is
\* otherwise commanded to 0; gas in the result implies the battery delivered
\* all it could and was not charged.
C9_BatteryFirstThenGas ==
    last.op = "balance_grid" =>
        LET res == last.result[1]
            renewable == res.wind_output + res.solar_output
            remaining == res.demand - renewable - res.battery_action
        IN /\ renewable <= res.demand =>
                 /\ res.battery_action >= 0
                 /\ IF remaining > 1
                       THEN /\ gas_active
                            /\ res.gas_output = gas.current_output_mw
                       ELSE /\ ~gas_active
                            /\ res.gas_output = 0
                            /\ gas.current_output_mw
                                  = Max(0, last.gas_before - LastRampLimit)
           /\ res.gas_output > 0 =>
                 /\ res.battery_action >= 0
                 /\ \/ res.battery_action = max_discharge_rate_mw
                    \/ battery.current_charge_mwh = 0

\* gas was dispatched in the call that emptied the battery
C9_Witness ==
    /\ last.op = "balance_grid"
    /\ last.result[1].gas_output > 0
    /\ last.charge_before > 0
    /\ battery.current_charge_mwh = 0
    /\ last.result[1].battery_action > 0
    /\ last.result[1].battery_action < max_discharge_rate_mw

\* C10 as claimed: with renewables below demand and the battery empty, the
\* gas output returned equals min(deficit, capacity_mw) and gas is active.
C10_GasCoversDeficit ==
    last.op = "balance_grid" =>
        LET res == last.result[1]
            deficit == res.demand - res.wind_output - res.solar_output
        IN (deficit > 0 /\ last.charge_before = 0) =>
              gas_active /\ res.gas_output = Min(deficit, capacity_mw)

\* C10 as amended: with renewables below demand and the battery empty, a
\* deficit above 0.1 MW makes the controller request min(deficit,
\* capacity_mw) and mark gas active, and the output returned is that target
\* approached from the previous output by at most the ramp limit; a deficit
\* of at most 0.1 MW commands 0 and marks gas inactive.
C10_GasRampsTowardDeficit ==
    last.op = "balance_grid" =>
        LET res == last.result[1]
            deficit == res.demand - res.wind_output - res.solar_output
            target == Min(deficit, capacity_mw)
            ramped == IF target > last.gas_before
                         THEN Min(target, last.gas_before + LastRampLimit)
                         ELSE Max(target, last.gas_before - LastRampLimit)
        IN (deficit > 0 /\ last.charge_before = 0) =>
              IF deficit > 1
                 THEN gas_active /\ res.gas_output = ramped
                 ELSE ~gas_active /\ res.gas_output = 0

\* with the battery empty the gas plant was held at the ramp limit, short of
\* the deficit and of its capacity
C10_Witness ==
    /\ last.op = "balance_grid"
    /\ last.charge_before = 0
    /\ gas_active
    /\ last.result[1].gas_output = last.gas_before + LastRampLimit
    /\ last.result[1].gas_output < capacity_mw
    /\ last.result[1].gas_output
          < last.result[1].demand - last.result[1].wind_output
               - last.result[1].solar_output

\* C11: a call with wind + solar above demand charges the battery with the
\* surplus (at most the charge rate, less when the headroom runs out),
\* reports battery_action = -(power drawn), the energy stored being that
\* power times duration times efficiency, and leaves every field of the gas
\* plant as it was.
C11_SurplusLeavesGasUntouched ==
    [][ (last'.op = "balance_grid"
           /\ last'.result[1].wind_output + last'.result[1].solar_output
                 > last'.result[1].demand) =>
          LET res == last'.result[1]
              surplus == res.wind_output + res.solar_output - res.demand
              drawn == 0 - res.battery_action
              stored == battery'.current_charge_mwh - battery.current_charge_mwh
              per_unit == last'.duration * EnergyPerPowerQuarter * round_trip_efficiency
          IN /\ gas' = gas
             /\ res.gas_output = 0
             /\ 0 <= drawn /\ drawn <= Min(surplus, max_charge_rate_mw)
             /\ drawn < Min(surplus, max_charge_rate_mw) =>
                   battery'.current_charge_mwh = max_capacity_mwh
             /\ 2 * Abs(stored * 100 - drawn * per_unit) <= per_unit ]_vars

\* a surplus call charged the battery while the gas plant, dispatched by an
\* earlier call, kept running
C11_Witness ==
    /\ last.op = "balance_grid"
    /\ last.result[1].wind_output + last.result[1].solar_output > last.result[1].demand
    /\ last.result[1].battery_action < 0
    /\ last.gas_before > 0
    /\ gas.current_output_mw = last.gas_before
    /\ gas.activation_count > 0

\* C12: the GridState returned by a tick in which the battery charged or
\* discharged carries the signed battery action as battery.current_output_mw
\* (negative when charging, the power delivered when discharging).
C12_SnapshotCarriesBatteryAction ==
    (last.op = "tick" /\ last.result[1].battery_action # 0) =>
        /\ Len(last.state) = 1
        /\ last.state[1].battery.current_output_mw = last.result[1].battery_action

\* C13: the renewable share balance_grid returns is a fraction of total
\* supply, between 0 and 100 percent, also when the battery is charging.
C13_RenewableShareIsFraction ==
    last.op = "balance_grid" =>
        /\ 0 <= last.result[1].renewable_percent
        /\ last.result[1].renewable_percent <= 10000

\* C14: the cumulative renewable percentage the engine computes for the
\* snapshot metrics lies between 0 and 100 after any sequence of ticks, and
\* is 0 while total demand is 0.
C14_CumulativeRenewableIsPercentage ==
    /\ 0 <= SimulationEngine_calculate_renewable_percent(cumulative_metrics)
    /\ SimulationEngine_calculate_renewable_percent(cumulative_metrics) <= 10000
    /\ cumulative_metrics.total_demand_mwh = 0 =>
          SimulationEngine_calculate_renewable_percent(cumulative_metrics) = 0

\* C15: with 15-minute ticks the hour of day stays in [0, 24) and the day at
\* least 1; n advances after a reset give day 1 + n div 96 and hour
\* 0.25 * (n mod 96); every advance adds a quarter hour and wraps to 0 with
\* the day incremented exactly when the hour reaches 24; and (day, hour)
\* never decreases except by reset.
C15_ClockWrapsDaily ==
    /\ [](/\ 0 <= time.current_hour /\ time.current_hour < 1440
          /\ time.current_day >= 1
          /\ time.current_day = 1 + time.total_ticks \div 96
          /\ time.current_hour = 15 * (time.total_ticks % 96))
    /\ [][ /\ last'.op = "time.tick" =>
                IF time.current_hour + 15 = 1440
                   THEN time'.current_hour = 0
                        /\ time'.current_day = time.current_day + 1
                   ELSE time'.current_hour = time.current_hour + 15
                        /\ time'.current_day = time.current_day
           /\ last'.op \notin {"time.reset", "reset"} =>
                \/ time'.current_day > time.current_day
                \/ /\ time'.current_day = time.current_day
                   /\ time'.current_hour >= time.current_hour ]_vars

\* the 96th advance after a reset rolled the clock over to day 2, 00:00
C15_Witness ==
    /\ last.op = "time.tick"
    /\ time.total_ticks = 96
    /\ time.current_day = 2
    /\ time.current_hour = 0

\* C16: after any sequence of update(), set_wind, set_clouds,
\* set_temperature, trigger_storm and trigger_calm the wind speed is within
\* [0, 30], the cloud cover within [0, 1] and the temperature within
\* [-30, 50], so the WeatherState built from them is always valid.
C16_WeatherWithinRanges ==
    /\ 0 <= weather.wind_speed /\ weather.wind_speed <= 3000
    /\ 0 <= weather.cloud_cover /\ weather.cloud_cover <= 100
    /\ -300 <= weather.temperature /\ weather.temperature <= 500
    /\ WeatherState_valid([wind_speed |-> weather.wind_speed,
                           cloud_cover |-> weather.cloud_cover,
                           temperature |-> weather.temperature,
                           time_of_day |-> time.current_hour])

\* set_temperature was asked for 60 degrees and stopped at 50
C16_Witness ==
    /\ last.op = "weather.set_temperature"
    /\ last.result[1] = 600
    /\ weather.temperature = 500

\* C17 as claimed: set_wind(v) leaves the wind speed equal to v for every v
\* in [0, 50].
C17_WindSettableUpTo50 ==
    (last.op = "weather.set_wind" /\ 0 <= last.result[1] /\ last.result[1] <= 5000) =>
        weather.wind_speed = last.result[1]

\* C17 as amended: set_wind(v) leaves the wind speed equal to v for v in
\* [0, 30] and equal to 30 for v in (30, 50].
C17_WindSettableUpTo30 ==
    (last.op = "weather.set_wind" /\ 0 <= last.result[1] /\ last.result[1] <= 5000) =>
        weather.wind_speed = IF last.result[1] <= 3000 THEN last.result[1] ELSE 3000

\* set_wind was asked for 40 m/s and left 30 m/s
C17_Witness ==
    /\ last.op = "weather.set_wind"
    /\ last.result[1] = 4000
    /\ weather.wind_speed = 3000

\* C18: calculate_power partitions wind speed at 3, 12 and 25 m/s: from 25
\* up 0 MW and "shutdown_storm"; below 3, 0 MW and "insufficient_wind"; from
\* 12 to below 25 exactly turbines x rating and "rated_power"; from 3 to
\* below 12 "ramping" with output in [0, capacity).  For storm winds (20 to
\* 28 m/s) shutdown is reported only from 25 up, rated power below.
C18_WindPowerPartition ==
    last.op = "wind.calculate_power" =>
        LET speed == last.result[1].wind_speed
            power == last.result[1].power
            status == last.result[1].status
        IN /\ speed >= 2500 => power = 0 /\ status = "shutdown_storm"
           /\ speed < 300 => power = 0 /\ status = "insufficient_wind"
           /\ (1200 <= speed /\ speed < 2500) =>
                 power = num_turbines * rated_power_mw /\ status = "rated_power"
           /\ (300 <= speed /\ speed < 1200) =>
                 /\ status = "ramping"
                 /\ 0 <= power /\ power < num_turbines * rated_power_mw
           /\ (2000 <= speed /\ speed <= 2800) =>
                 /\ status = "shutdown_storm" <=> speed >= 2500
                 /\ speed < 2500 => status = "rated_power"

\* the power computed for a storm wind below 25 m/s: rated power, no
\* shutdown
C18_Witness ==
    /\ last.op = "wind.calculate_power"
    /\ last.result[1].wind_speed \in StormWindDraws
    /\ last.result[1].wind_speed < 2500
    /\ last.result[1].status = "rated_power"
    /\ last.result[1].power = 4500

\* C19: calculate_power returns 0 and "nighttime" for every time of day
\* outside [6, 18), 18.0 included whatever the cloud cover; inside, the
\* output is within [0, capacity_mw] and the status is "cloudy" above 0.7
\* cloud cover, "partly_cloudy" above 0.3, else "clear"; at 12.0 with no
\* clouds the output equals the capacity.
C19_SolarPowerByTimeAndClouds ==
    last.op = "solar.calculate_power" =>
        LET t == last.result[1].time_of_day
            clouds == last.result[1].cloud_cover
            power == last.result[1].power
            status == last.result[1].status
        IN /\ (t < 360 \/ t >= 1080) => power = 0 /\ status = "nighttime"
           /\ (360 <= t /\ t < 1080) =>
                 /\ 0 <= power /\ power <= solar_capacity_mw
                 /\ status = IF clouds > 70 THEN "cloudy"
                             ELSE IF clouds > 30 THEN "partly_cloudy"
                             ELSE "clear"
           /\ (t = 720 /\ clouds = 0) => power = solar_capacity_mw

\* the edge 18.0 under a clear sky resolved to nighttime
C19_Witness ==
    /\ last.op = "solar.calculate_power"
    /\ last.result[1].time_of_day = 1080
    /\ last.result[1].cloud_cover = 0
    /\ last.result[1].status = "nighttime"
    /\ last.result[1].power = 0

\* C20: for every time of day in [0, 24) and temperature in [-30, 50],
\* total_demand is base_load + industrial_load + heating_cooling_load with
\* every component at least 0; industrial_load is industrial_load_mw when
\* the flag is on and 0 otherwise; heating_cooling_load is 0 outside
\* [6, 22), at most 50 below 10 degrees, at most 30 above 20 degrees and 0
\* from 10 to 20 degrees.
C20_DemandBreakdown ==
    (/\ last.op = "demand.calculate_demand"
     /\ 0 <= last.result[1].time_of_day /\ last.result[1].time_of_day < 1440
     /\ -300 <= last.result[1].temperature /\ last.result[1].temperature <= 500) =>
        LET t == last.result[1].time_of_day
            temp == last.result[1].temperature
            d == last.result[1].demand
        IN /\ d.total_demand
                 = d.base_load + d.industrial_load + d.heating_cooling_load
           /\ d.base_load >= 0 /\ d.industrial_load >= 0
           /\ d.heating_cooling_load >= 0
           /\ d.industrial_load
                 = IF last.result[1].industrial_enabled THEN industrial_load_mw ELSE 0
           /\ (t < 360 \/ t >= 1320) => d.heating_cooling_load = 0
           /\ temp < 100 => d.heating_cooling_load <= 500
           /\ temp > 200 => d.heating_cooling_load <= 300
           /\ (100 <= temp /\ temp <= 200) => d.heating_cooling_load = 0

\* at noon and -30 degrees the heating load was held at its 50 MW cap, with
\* the industrial load switched off
C20_Witness ==
    /\ last.op = "demand.calculate_demand"
    /\ last.result[1].time_of_day = 720
    /\ last.result[1].temperature = -300
    /\ ~last.result[1].industrial_enabled
    /\ last.result[1].demand.heating_cooling_load = 500
    /\ last.result[1].demand.industrial_load = 0

\* C21: Battery.charge(p, d) with d > 0 stores
\* min(min(p, max_charge_rate) * d * efficiency, capacity - charge) and
\* returns stored / (d * efficiency), to the nearest 0.1 MW: the value
\* returned is at most min(p, max_charge_rate) and the charge rises by the
\* value returned * d * efficiency; with d = 0 it returns 0 and leaves the
\* charge unchanged.
C21_ChargeStoresAndReportsDraw ==
    last.op = "battery.charge" =>
        LET p == last.result[1].power_mw
            d == last.duration
            ret == last.result[1].ret
            stored == battery.current_charge_mwh - last.charge_before
            per_power == d * EnergyPerPowerQuarter * round_trip_efficiency
        IN /\ d > 0 =>
                /\ stored = Min((Min(p, max_charge_rate_mw) * per_power) \div 100,
                                max_capacity_mwh - last.charge_before)
                /\ ret <= Min(p, max_charge_rate_mw)
                /\ 2 * Abs(ret * per_power - stored * 100) <= per_power
           /\ d = 0 => (ret = 0 /\ stored = 0)

\* the empty battery charged with 100 MW for one hour stored 95 MWh and
\* reported a draw of 100 MW
C21_Witness ==
    /\ last.op = "battery.charge"
    /\ last.charge_before = 0
    /\ last.result[1].power_mw = 1000
    /\ last.duration = 4
    /\ battery.current_charge_mwh = 1900000
    /\ last.result[1].ret = 1000

\* C22: round-trip efficiency is the fraction of the energy put in that is
\* recovered: when a charge that drew grid-side energy E (the value returned
\* times the duration) is followed by a discharge that takes from storage
\* exactly what that charge stored, the discharge delivers
\* round_trip_efficiency * E to the grid, to the nearest 0.1 MW of delivered
\* power.
C22_RoundTripRecoversEfficiency ==
    [][(/\ last.op = "battery.charge"
        /\ last'.op = "battery.discharge"
        /\ last.duration > 0 /\ last'.duration > 0
        /\ last.result[1].energy > 0
        /\ last'.result[1].energy = last.result[1].energy) =>
          LET put_in == last.result[1].ret * last.duration * EnergyPerPowerQuarter
              recovered == last'.result[1].ret * last'.duration * EnergyPerPowerQuarter
          IN Abs(recovered * 100 - round_trip_efficiency * put_in)
                <= last'.duration * EnergyPerPowerQuarter * 100]_vars

\* C28: Battery.discharge(p, d) with d > 0 takes
\* min(min(p, max_discharge_rate) * d / efficiency, charge) from storage and
\* returns removed * efficiency / d, to the nearest 0.1 MW: the value
\* returned is at most min(p, max_discharge_rate), the call never raises,
\* and a discharge cut short by the stored energy returns less than was
\* requested; with d = 0 it returns 0 and leaves the charge unchanged.
C28_DischargeRemovesAndReportsDelivery ==
    last.op = "battery.discharge" =>
        LET p == last.result[1].power_mw
            d == last.duration
            ret == last.result[1].ret
            removed == last.charge_before - battery.current_charge_mwh
            per_power == d * EnergyPerPowerQuarter * 100
            needed == Round(Min(p, max_discharge_rate_mw) * per_power,
                            round_trip_efficiency)
        IN /\ ~last.raised
           /\ d > 0 =>
                /\ removed = Min(needed, last.charge_before)
                /\ ret <= Min(p, max_discharge_rate_mw)
                /\ 2 * Abs(ret * per_power - removed * round_trip_efficiency)
                      <= per_power
                /\ removed < needed => ret < p
           /\ d = 0 => (ret = 0 /\ removed = 0)

\* a discharge of 100 MW for one hour found less stored than it needed,
\* emptied the battery and returned less than 100 MW
C28_Witness ==
    /\ last.op = "battery.discharge"
    /\ last.result[1].power_mw = 1000
    /\ last.duration = 4
    /\ last.charge_before > 0
    /\ battery.current_charge_mwh = 0
    /\ last.result[1].ret < 1000
    /\ last.result[1].ret > 0

\* C27: the residential peaks are active only in the half-open windows
\* [6, 10) and [16, 22): at every time of day outside them, and so at
\* exactly 10.0 and exactly 22.0, the residential load is
\* base_load * night_factor with no peak variation.
C27_PeaksOnlyInHalfOpenWindows ==
    (/\ last.op = "demand.calculate_demand"
     /\ LET t == last.result[1].time_of_day
        IN ~(360 <= t /\ t < 600) /\ ~(960 <= t /\ t < 1320)) =>
        LET t == last.result[1].time_of_day
            night_factor == IF (0 <= t /\ t < 360) \/ t >= 1380 THEN 6 ELSE 10
        IN last.result[1].demand.base_load = (base_load_mw * night_factor) \div 10

\* the step is a call of gas.set_output: made directly, or by balance_grid
\* in a tick whose renewable supply does not exceed the demand
C29_SetOutputCalled ==
    \/ last'.op = "set_output" /\ calls' = calls + 1
    \/ /\ last'.op = "tick"
       /\ cumulative_metrics'.total_ticks = cumulative_metrics.total_ticks + 1
       /\ last'.result[1].wind_output + last'.result[1].solar_output
             <= last'.result[1].demand

\* the step replaces the gas plant by a new one (reset)
C29_GasReplaced == last'.op = "reset" /\ last.op # "reset" /\ gas' = GasPlant_init

\* C29: activation_count rises by one on exactly the set_output calls that
\* take the output from 0 to a positive value; total_runtime_hours,
\* total_fuel_cost_eur and total_co2_tons grow by duration,
\* output * duration * fuel_cost_per_mwh and output * duration *
\* co2_per_mwh_tons on exactly the calls that leave the output positive,
\* ramp-downs included; no other step but a reset changes the four counters,
\* and every snapshot carries the plant's activation_count, the number of
\* 0-to-positive transitions since the last reset.
C29_GasCountersTrackRunning ==
    [][LET d == last'.duration
           out == gas'.current_output_mw
           energy_mwh == out * d * EnergyPerPowerQuarter
       IN /\ C29_SetOutputCalled =>
               /\ gas'.activation_count = gas.activation_count
                     + (IF gas.current_output_mw = 0 /\ out > 0 THEN 1 ELSE 0)
               /\ out > 0 =>
                     /\ gas'.total_runtime_hours = gas.total_runtime_hours + d
                     /\ gas'.total_fuel_cost_eur = gas.total_fuel_cost_eur
                           + (energy_mwh * fuel_cost_per_mwh) \div 200
                     /\ gas'.total_co2_tons = gas.total_co2_tons
                           + (energy_mwh * co2_per_mwh_tons) \div 20
               /\ out <= 0 =>
                     /\ gas'.total_runtime_hours = gas.total_runtime_hours
                     /\ gas'.total_fuel_cost_eur = gas.total_fuel_cost_eur
                     /\ gas'.total_co2_tons = gas.total_co2_tons
          /\ (~C29_SetOutputCalled /\ ~C29_GasReplaced) =>
               /\ gas'.activation_count = gas.activation_count
               /\ gas'.total_runtime_hours = gas.total_runtime_hours
               /\ gas'.total_fuel_cost_eur = gas.total_fuel_cost_eur
               /\ gas'.total_co2_tons = gas.total_co2_tons
          /\ (last'.op = "tick" /\ Len(last'.state) = 1) =>
               last'.state[1].metrics.gas_activation_count = gas'.activation_count
          /\ last'.op = "reset" => gas'.activation_count = 0]_vars

\* a tick lowered the running plant's output to a smaller positive value:
\* the snapshot counts the one activation and the plant has run both ticks
C29_Witness ==
    /\ last.op = "tick"
    /\ 0 < gas.current_output_mw
    /\ gas.current_output_mw < last.gas_before
    /\ Len(last.state) = 1
    /\ last.state[1].metrics.gas_activation_count = 1
    /\ gas.total_runtime_hours = 2

\* C30: reset() puts the clock (day 1, hour 0, 0 ticks), the weather
\* (8.0 m/s, 0.3 clouds, 12 C), the battery (200 of 400 MWh, 0 cycles), the
\* gas plant (output 0, all counters 0) and every cumulative metric (0) back
\* to what a newly constructed engine has, and leaves industrial_enabled (and
\* the controller's flag) as they were; the wind and solar configuration are
\* constants of the model.
C30_ResetRestoresFreshEngine ==
    [][(last'.op = "reset" /\ last' # last) =>
          /\ time' = [current_hour |-> 0, current_day |-> 1, total_ticks |-> 0]
          /\ time' = TimeManager_init
          /\ weather' = [wind_speed |-> 800, cloud_cover |-> 30, temperature |-> 120]
          /\ weather' = WeatherSystem_init
          /\ battery' = [current_charge_mwh |-> 4000000, total_cycles |-> 0]
          /\ battery' = Battery_init
          /\ max_capacity_mwh = 8000000
          /\ gas' = [current_output_mw |-> 0, total_runtime_hours |-> 0,
                     total_fuel_cost_eur |-> 0, total_co2_tons |-> 0,
                     activation_count |-> 0]
          /\ gas' = GasPlant_init
          /\ \A k \in DOMAIN cumulative_metrics' : cumulative_metrics'[k] = 0
          /\ cumulative_metrics' = cumulative_metrics_init
          /\ industrial_enabled' = industrial_enabled
          /\ gas_active' = gas_active]_vars

\* a reset of an engine that had ticked, dispatched gas and drawn on the
\* battery, with the industrial load switched off before the reset
C30_Witness ==
    /\ last.op = "reset"
    /\ last.gas_before > 0
    /\ last.charge_before < initial_charge_mwh
    /\ ~industrial_enabled
    /\ time = TimeManager_init
    /\ weather = WeatherSystem_init
    /\ battery = Battery_init
    /\ gas = GasPlant_init
    /\ cumulative_metrics = cumulative_metrics_init

SnapshotTick(m) ==
    (m.data.simulation_day - 1) * (1440 \div tick_duration_minutes)
        + m.data.time_of_day \div tick_duration_minutes

\* the coroutines that are inside tick()
TicksInFlight == {c \in Clients : pc[c].at \in {"tick_initial", "tick_loop"}}

\* C24: the REST routes act on the engine whose ticks are streamed to the
\* WebSocket subscribers: once the industrial load has been set through the
\* routes, every snapshot a streamed tick produces afterwards shows the
\* industrial load as the routes' engine has it.
C24_RestControlReachesStreamedEngine ==
    [][(/\ last'.op = "tick" /\ last' # last /\ ~last'.raised
        /\ routes_sim_engine # <<>>) =>
          last'.state[1].demand.industrial_load
             = IF routes_sim_engine[1].industrial_enabled
                  THEN industrial_load_mw ELSE 0]_vars

\* C25: with any number of subscribers connected the engine advances one
\* tick per 2-second period, and the snapshots a subscriber receives are of
\* consecutive ticks, none missing and none out of order.
C25_OneTickPerPeriodForEverySubscriber ==
    /\ period_ticks <= 1
    /\ \A c \in Clients : \A i \in 1..(Len(received[c]) - 1) :
          SnapshotTick(received[c][i + 1]) = SnapshotTick(received[c][i]) + 1

\* C26: at most one tick() is in flight at any time, and while one is, no
\* other coroutine or handler takes a step: the only step is that tick's
\* own completion, so no tick() meets the partial effects of another tick()
\* or of a control operation.
C26_OneTickInFlight ==
    /\ [](Cardinality(TicksInFlight) <= 1)
    /\ [][\A c \in TicksInFlight :
             /\ running_task = c
             /\ c \notin TicksInFlight'
             /\ \A d \in Clients \ {c} : pc'[d] = pc[d]
             /\ routes_sim_engine' = routes_sim_engine]_vars

\* a tick() is in flight in one coroutine while the sleep of another has
\* expired and it waits to be resumed
C26_Witness ==
    /\ pc["c1"].at = "tick_loop"
    /\ pc["c2"].at = "due"
    /\ running_task = "c1"
    /\ TicksInFlight = {"c1"}

\* the clock in minutes since 00:00 of day 1
ClockMinutes(t) == (t.current_day - 1) * 1440 + t.current_hour

\* C31: a snapshot reports the time at which its tick was computed, before
\* the clock advances: its simulation_day and time_of_day are the clock's
\* before the tick, its solar output and demand are computed from that same
\* time_of_day, a successful tick moves the clock on by exactly 15 minutes and
\* nothing else but reset() and a direct call of the clock's own tick() moves
\* it, and a clock that has not ticked since construction or reset reads
\* day 1, 00:00
C31_SnapshotReportsTimeBeforeAdvance ==
    /\ [](time.total_ticks = 0 => time.current_day = 1 /\ time.current_hour = 0)
    /\ [][IF last'.op = "tick"
             /\ cumulative_metrics'.total_ticks = cumulative_metrics.total_ticks + 1
          THEN IF last'.raised
               THEN time' = time
               ELSE LET s == last'.state[1]
                        d == DemandModel_calculate_demand(industrial_enabled,
                                                          time.current_hour,
                                                          weather'.temperature)
                    IN /\ s.simulation_day = time.current_day
                       /\ s.weather.time_of_day = time.current_hour
                       /\ s.solar.current_output_mw
                            = SolarArray_calculate_power(time.current_hour,
                                                         weather'.cloud_cover).power
                       /\ s.demand.base_load = d.base_load
                       /\ s.demand.industrial_load = d.industrial_load
                       /\ s.demand.heating_cooling_load = d.heating_cooling_load
                       /\ ClockMinutes(time') = ClockMinutes(time) + 15
                       /\ time'.current_hour < 1440
          ELSE IF last'.op = "reset" /\ last' # last
               THEN time'.current_day = 1 /\ time'.current_hour = 0
               ELSE last'.op = "time.tick" \/ time' = time]_vars

\* a second successful tick in daylight, whose snapshot shows the sun of the
\* time it reports, one quarter-hour after the first snapshot's time
C31_Witness ==
    /\ last.op = "tick"
    /\ ~last.raised
    /\ cumulative_metrics.total_ticks = 2
    /\ last.state[1].weather.time_of_day = 480
    /\ last.state[1].solar.current_output_mw > 0
    /\ time.current_hour = 495

\* GridState.total_generation_mw
GridState_total_generation_mw(s) ==
    s.wind.current_output_mw + s.solar.current_output_mw
        + s.battery.current_output_mw + s.gas.current_output_mw

\* GridState.supply_demand_balance, with DemandState.total_demand
GridState_supply_demand_balance(s) ==
    GridState_total_generation_mw(s)
        - (s.demand.base_load + s.demand.industrial_load
           + s.demand.heating_cooling_load)

\* GridState.is_grid_stable
GridState_is_grid_stable(s) == GridState_supply_demand_balance(s) >= 0

\* C32: after every tick the gas output the controller counted in
\* total_supply and grid_stable is the gas plant's actual output, which is
\* also the output the snapshot shows, and the stability derived from the
\* snapshot agrees with the controller's flag
C32_CountedGasIsPlantOutput ==
    last.op = "tick" =>
        /\ last.result[1].gas_output = gas.current_output_mw
        /\ ~last.raised =>
              /\ last.state[1].gas.current_output_mw = last.result[1].gas_output
              /\ GridState_is_grid_stable(last.state[1])
                    <=> last.result[1].grid_stable

\* the energy a step moved into or out of the battery's storage
EnergyMoved ==
    IF battery'.current_charge_mwh >= battery.current_charge_mwh
    THEN battery'.current_charge_mwh - battery.current_charge_mwh
    ELSE battery.current_charge_mwh - battery'.current_charge_mwh

\* C37: the battery's cycle count (in energy moved; max_capacity_mwh is one
\* cycle) never decreases while the battery lives and grows in every operation
\* by exactly the energy that operation moved into or out of storage; reset()
\* starts a battery that counts from 0, and the battery_cycles of a snapshot
\* is the count after its tick
C37_CyclesCountEnergyMoved ==
    /\ [](battery.total_cycles >= 0)
    /\ [][IF last'.op = "reset" /\ last' # last
          THEN battery'.total_cycles = 0
          ELSE /\ battery'.total_cycles >= battery.total_cycles
               /\ battery'.total_cycles = battery.total_cycles + EnergyMoved
               /\ (last'.op = "tick" /\ last' # last /\ ~last'.raised)
                     => last'.state[1].metrics.battery_cycles = battery'.total_cycles]_vars

\* a second successful tick after two discharges: the snapshot counts the
\* energy both took from storage
C37_Witness ==
    /\ last.op = "tick"
    /\ ~last.raised
    /\ cumulative_metrics.total_ticks = 2
    /\ last.charge_before < Battery_init.current_charge_mwh
    /\ battery.current_charge_mwh < last.charge_before
    /\ last.state[1].metrics.battery_cycles
          = Battery_init.current_charge_mwh - battery.current_charge_mwh

\* C36: a single weather.update() changes the temperature by at most 0.5 C,
\* from every temperature set_temperature and earlier updates can leave
C36_UpdateMovesTemperatureHalfDegree ==
    [][(last'.op = "weather.update" /\ calls' = calls + 1)
          => /\ weather'.temperature - weather.temperature <= 5
             /\ weather.temperature - weather'.temperature <= 5]_vars

\* C35: get_current_state (GET /api/state) is a pure query: a request
\* leaves the clock, the weather, the battery, the gas plant and the
\* cumulative metrics of the routes' engine as they were
C35_GetStateIsPureQuery ==
    [][(last'.op = "get_current_state" /\ calls' = calls + 1) =>
          LET before == get_simulation
              after == routes_sim_engine'[1]
          IN /\ after.time = before.time
             /\ after.weather = before.weather
             /\ after.battery = before.battery
             /\ after.gas = before.gas
             /\ after.cumulative_metrics = before.cumulative_metrics]_vars

\* C33: a broadcast sends the message to all connected clients: every
\* connection in active_connections whose send succeeds receives the message
\* exactly once, and exactly the connections whose send fails are removed
C33_BroadcastReachesEveryLiveConnection ==
    last.op = "broadcast" =>
        LET b == last.result[1]
        IN /\ \A i \in 1..Len(b.connections) :
                 b.connections[i] \notin b.failing =>
                    Cardinality({k \in 1..Len(b.sent) :
                                    b.sent[k] = b.connections[i]}) = 1
           /\ b.remaining = SelectSeq(b.connections, LAMBDA x : x \notin b.failing)

\* C34: disconnect() of a connection that a broadcast has already removed
\* from active_connections completes without error, and the connection is
\* not in active_connections afterwards
C34_DisconnectAfterRemovalSucceeds ==
    (last.op = "disconnect"
        /\ \A k \in 1..Len(last.result[1].connections) :
              last.result[1].connections[k] # last.result[1].websocket)
    => /\ ~last.raised
       /\ \A k \in 1..Len(active_connections) :
             active_connections[k] # last.result[1].websocket

====
